---- MODULE Spec2Model ----
(***************************************************************************)
(* A model of the request layer, of the result aggregation and of the      *)
(* workflows of oic_devops: OICClient (client.py), the list_all iterators  *)
(* of resources/{integrations,connections}.py, WorkflowResult and          *)
(* wait_for_operation (workflows/base.py), the execute dispatchers, the    *)
(* backup, restore and prune workflows (workflows/backup.py) and the       *)
(* restart workflows (workflows/integration.py, workflows/connection.py).  *)
(*                                                                         *)
(* The module holds one state machine per component.  Each machine has     *)
(* its own initial predicate, next-state relation and specification        *)
(* (SpecClient, SpecList, ...); the variables of the other machines stay   *)
(* at their idle values.                                                   *)
(***************************************************************************)
EXTENDS Integers, Sequences, FiniteSets, TLC

VARIABLES
    \* ---- OICClient (client.py) ----
    auth_token,     \* self._auth_token; NoToken is Python's None
    session_auth,   \* the Authorization value held in self.session.headers
    issued,         \* number of access tokens the token endpoint has issued
    rq_pc,          \* position inside request(): "idle", "prepare", "send"
    retry_auth,     \* the retry_auth argument of the running request() frame
    rq_header,      \* the Bearer value _prepare_headers put in request_headers
    rq_sent,        \* session.request calls made by the current request call
    rq_auths,       \* authenticate() calls made by the current request call
    rq_statuses,    \* status codes received by the current request call
    rq_headers,     \* Bearer values sent by the current request call
    rq_fresh,       \* token issued to the current call's authenticate, if any
    rq_since,       \* token of the last successful exchange while no 401 came after it
    rq_final,       \* <<status, body>> the call handled as its final response
    rq_result,      \* how the last request call ended: "ok" or the exception
    rq_code,        \* status_code attribute of the raised OICAPIError
    \* ---- list_all (resources/integrations.py, resources/connections.py) ----
    la_kind,        \* whose list_all runs: "integrations" or "connections"
    la_pc,          \* "idle", "loop" (inside the while loop), "done"
    has_more,       \* the local has_more
    output,         \* the local output: the accumulated items
    pages,          \* the local pages: the offset of the next list call
    la_calls,       \* list calls issued by the running list_all
    la_last,        \* status of the last list answer
    la_result,      \* "returned", or the exception that left list_all
    srv_total,      \* server: number of items in the collection
    srv_page,       \* server: page size
    srv_more,       \* server: "honest", or "always" (hasMore=true on every page)
    srv_limit,      \* server: whether a page carries a (non-zero) limit field
    srv_faulty,     \* server: whether it may answer a list call with status 400
    \* ---- WorkflowResult (workflows/base.py) ----
    results,        \* the WorkflowResult objects alive: name -> value
    m_a, m_b, m_c,  \* three WorkflowResult values, the operands of merge
    m_ab,           \* a copy of m_a after .merge(m_b)
    m_left,         \* a copy of m_a after .merge(m_b).merge(m_c)
    m_right,        \* a copy of m_a after .merge(<copy of m_b>.merge(m_c))
    m_pc            \* "start", "left", "done"

client_vars == <<auth_token, session_auth, issued, rq_pc, retry_auth, rq_header,
                 rq_sent, rq_auths, rq_statuses, rq_headers, rq_fresh, rq_since,
                 rq_final, rq_result, rq_code>>

list_vars == <<la_kind, la_pc, has_more, output, pages, la_calls, la_last, la_result,
               srv_total, srv_page, srv_more, srv_limit, srv_faulty>>

result_vars == <<results>>

merge_vars == <<m_a, m_b, m_c, m_ab, m_left, m_right, m_pc>>

VARIABLES
    \* ---- the execute dispatchers (workflows/*.py) ----
    ex_pc,          \* "idle", "handler" (inside the routed workflow), "returned"
    ex_family,      \* the workflow class whose execute was called
    ex_operation,   \* the operation keyword; NoOperation when it was not passed
    ex_handler,     \* the workflow method execute routed to, or NoHandler
    ex_gateway,     \* gateway (client) calls issued by the execute call
    ex_raised,      \* whether the execute call left by an exception
    ex_result       \* the WorkflowResult execute returned

execute_vars == <<ex_pc, ex_family, ex_operation, ex_handler, ex_gateway, ex_raised, ex_result>>

VARIABLES
    \* ---- backup_all_resources, restore_from_backup (workflows/backup.py) ----
    bk_op,          \* the workflow running: "backup" or "restore"
    bk_pc,          \* "idle", "list" (before a kind), "items" (in its loop), "done"
    bk_continue,    \* the continue_on_error argument
    bk_packages,    \* the include_packages argument (backup)
    bk_filter,      \* whether a filter_pattern was passed (restore)
    bk_kind,        \* index in ResourceKinds of the kind at hand
    bk_items,       \* the resources listed for it: whether each carries an id
    bk_i,           \* index in bk_items of the next resource
    bk_listed,      \* every <<kind, index>> listed with an id so far
    bk_calls,       \* the export/import calls issued, in order
    bk_failed,      \* whether the step of some resource has failed
    bk_after,       \* export/import calls issued after the first such failure
    bk_nfailed,     \* the sum of the 'failed' counters of the stats
    bk_end,         \* "running", "returned", or the exception that left the call
    bk_result       \* the WorkflowResult being built

backup_vars == <<bk_op, bk_pc, bk_continue, bk_packages, bk_filter, bk_kind, bk_items, bk_i, bk_listed, bk_calls, bk_failed, bk_after, bk_nfailed, bk_end, bk_result>>

VARIABLES
    \* ---- prune_old_backups (workflows/backup.py) ----
    pr_pc,          \* "idle", "done"
    pr_exists,      \* whether backup_dir is an existing directory
    pr_disk,        \* the backups in backup_dir, each named by its age in days
    pr_before,      \* pr_disk as it was when the last call began
    pr_count,       \* the retention_count argument
    pr_days,        \* the retention_days argument
    pr_dry_run,     \* the dry_run argument
    pr_keep,        \* backups_to_keep: ages, in list order
    pr_delete,      \* backups_to_delete: ages, in list order
    pr_success      \* result.success

prune_vars == <<pr_pc, pr_exists, pr_disk, pr_before, pr_count, pr_days, pr_dry_run, pr_keep, pr_delete, pr_success>>

VARIABLES
    \* ---- BaseWorkflow.wait_for_operation (workflows/base.py) ----
    w_pc,           \* "idle", "loop", "done"
    w_max,          \* the max_attempts argument
    w_attempt,      \* the loop variable attempt
    w_outcomes,     \* what each check_operation call of this wait came to
    w_result        \* the WorkflowResult of the wait

wait_vars == <<w_pc, w_max, w_attempt, w_outcomes, w_result>>

VARIABLES
    \* ---- restart_integration (workflows/integration.py) and
    \* ---- update_credentials_and_restart_integrations (workflows/connection.py)
    rs_wf,          \* the workflow running: "restart" or "update_and_restart"
    rs_pc,          \* "idle", "get", "find", "deactivate", "activate", "done"
    rs_scope,       \* the restart_scope argument: "all", "active", "none"
    rs_verify,      \* the verify_restart argument
    rs_sequential,  \* the sequential_restart argument
    rs_todo,        \* integrations_to_restart: <<id, status as read>>, in order
    rs_cur,         \* index in rs_todo of the integration at hand
    rs_ok,          \* the local restart_success
    rs_nfailed,     \* len(failed_restarts)
    rs_log,         \* the gateway calls issued, in order, each with its outcome
    rs_result       \* the WorkflowResult being built

restart_vars == <<rs_wf, rs_pc, rs_scope, rs_verify, rs_sequential, rs_todo, rs_cur, rs_ok, rs_nfailed, rs_log, rs_result>>

VARIABLES
    \* ---- ConnectionsResource.create (resources/connections.py) ----
    cr_pc,          \* "idle", "done"
    cr_data,        \* the data argument: field -> "absent", "None" or "value"
    cr_posts,       \* the client.post calls of the create call: <<endpoint, data>>
    cr_result       \* "created", or the exception that left create

create_vars == <<cr_pc, cr_data, cr_posts, cr_result>>

VARIABLES
    \* ---- find_integration_dependencies (workflows/integration.py) ----
    dp_pc,          \* "idle", "done"
    dp_payload,     \* what integrations.get answered: references, triggers, invokes
    dp_include,     \* include_connections, include_lookups, include_libraries
    dp_deps,        \* the lists connections, lookups, libraries: ids in order
    dp_result       \* the WorkflowResult returned

deps_vars == <<dp_pc, dp_payload, dp_include, dp_deps, dp_result>>

\* Backing a connection up and restoring a connection file
\* (workflows/backup.py, resources/connections.py).
VARIABLES
    rt_pc,          \* "idle", "restored" (restore_from_backup is over), "done"
    rt_trip,        \* TRUE when the run began with backup_connections
    rt_source,      \* the connection of the source instance that is backed up
    rt_file,        \* the connection file of the backup directory
    rt_before,      \* the connections of the target instance before the restore
    rt_target,      \* the connections of the target instance
    rt_overwrite,   \* overwrite_existing
    rt_calls,       \* the calls made on target_client.connections, in order
    rt_end,         \* how the last call ended: "returned" or the exception
    rt_read         \* what connections.get gave back

trip_vars == <<rt_pc, rt_trip, rt_source, rt_file, rt_before, rt_target, rt_overwrite, rt_calls, rt_end, rt_read>>

\* bulk_activate_integrations and bulk_deactivate_integrations
\* (workflows/integration.py).
VARIABLES
    bu_op,          \* "activate" or "deactivate"
    bu_pc,          \* "idle", "gather", "process", "finish", "done"
    bu_ids,         \* integration_ids
    bu_continue,    \* continue_on_error
    bu_verify,      \* verify_activation / verify_deactivation
    bu_i,           \* position in the loop at hand
    bu_todo,        \* integrations_to_activate / integrations_to_deactivate
    bu_ok,          \* ids of successful_activations / successful_deactivations
    bu_failed,      \* ids of failed_activations / failed_deactivations
    bu_log,         \* the gateway calls made, in order
    bu_result       \* the WorkflowResult

bulk_vars == <<bu_op, bu_pc, bu_ids, bu_continue, bu_verify, bu_i, bu_todo, bu_ok, bu_failed, bu_log, bu_result>>

\* import_integration, import_lookup, import_library, import_package
\* (resources/*.py).
VARIABLES
    im_pc,          \* "idle" or "done"
    im_kind,        \* the resource whose import method is called
    im_sent,        \* TRUE when the upload request was made
    im_status,      \* the status the upload request was answered with
    im_body,        \* the shape of its body
    im_result,      \* "ok" or the exception the call raised
    im_code         \* the status_code the exception carries

import_vars == <<im_pc, im_kind, im_sent, im_status, im_body, im_result, im_code>>

\* One OICClient used by several workers at once (client.py).
VARIABLES
    cc_token,       \* self._auth_token, shared by the workers
    cc_issued,      \* the token the token endpoint issued last
    cc_valid_from,  \* the server accepts the tokens from this one on
    cc_exchanges,   \* token exchanges made since the client was built
    cc_storm,       \* workers answered 401 before any of these exchanges
    cc_pc,          \* per worker: "idle", "prepare", "auth", "send", "unauthorized", "done"
    cc_retry,       \* per worker: retry_auth of the call it is in
    cc_header,      \* per worker: the token of its Authorization header
    cc_status       \* per worker: the status of its last response

shared_vars == <<cc_token, cc_issued, cc_valid_from, cc_exchanges, cc_storm, cc_pc, cc_retry, cc_header, cc_status>>

\* BaseWorkflow.execute_safely (workflows/base.py).
VARIABLES
    es_pc,          \* "idle" or "done"
    es_before,      \* the result the call was given (the default one for None)
    es_outcome,     \* what the wrapped operation did
    es_resource_id, \* resource_id ("" for None)
    es_raised,      \* TRUE when the call raised instead of returning
    es_result       \* the result it returned

safely_vars == <<es_pc, es_before, es_outcome, es_resource_id, es_raised, es_result>>

\* DeploymentWorkflows.promote_integration (workflows/deployment.py).
VARIABLES
    pm_pc,          \* "idle", "import", "done"
    pm_id,          \* integration_id
    pm_activate,    \* activate_after_import
    pm_map,         \* TRUE when a connection_map was passed
    pm_deps,        \* include_dependencies
    pm_temp,        \* TRUE while the temporary directory exists
    pm_files,       \* the files of the temporary directory
    pm_export_path, \* export_file_path
    pm_exported,    \* TRUE when export_integration reported success
    pm_import_path, \* the path the import step was given ("" before it)
    pm_found,       \* TRUE when a file was at that path
    pm_end,         \* the return taken
    pm_result       \* the WorkflowResult

promote_vars == <<pm_pc, pm_id, pm_activate, pm_map, pm_deps, pm_temp, pm_files, pm_export_path, pm_exported, pm_import_path, pm_found, pm_end, pm_result>>

\* DeploymentWorkflows.clone_environment (workflows/deployment.py).
VARIABLES
    cl_pc,          \* "idle", "list", "items", "done"
    cl_activate,    \* activate_integrations
    cl_kind,        \* position in resource_types
    cl_left,        \* resources of the kind at hand still to process
    cl_exported,    \* the 'exported' counters, summed over the kinds
    cl_imported,    \* the 'imported' counters, summed
    cl_failed,      \* the 'failed' counters, summed
    cl_activated,   \* resource_counters["activated"]
    cl_attempt_failed, \* TRUE once an export, import or activation attempt failed
    cl_result       \* the WorkflowResult

clone_vars == <<cl_pc, cl_activate, cl_kind, cl_left, cl_exported, cl_imported, cl_failed, cl_activated, cl_attempt_failed, cl_result>>

vars == <<client_vars, list_vars, result_vars, merge_vars, execute_vars, backup_vars, prune_vars, wait_vars, restart_vars, create_vars, deps_vars, trip_vars, bulk_vars, import_vars, shared_vars, safely_vars, promote_vars, clone_vars>>

\* What the actions of one machine leave alone: the other machines.
client_frame == <<list_vars, result_vars, merge_vars, execute_vars, backup_vars, prune_vars, wait_vars, restart_vars, create_vars, deps_vars, trip_vars, bulk_vars, import_vars, shared_vars, safely_vars, promote_vars, clone_vars>>
list_frame == <<client_vars, result_vars, merge_vars, execute_vars, backup_vars, prune_vars, wait_vars, restart_vars, create_vars, deps_vars, trip_vars, bulk_vars, import_vars, shared_vars, safely_vars, promote_vars, clone_vars>>
result_frame == <<client_vars, list_vars, merge_vars, execute_vars, backup_vars, prune_vars, wait_vars, restart_vars, create_vars, deps_vars, trip_vars, bulk_vars, import_vars, shared_vars, safely_vars, promote_vars, clone_vars>>
merge_frame == <<client_vars, list_vars, result_vars, execute_vars, backup_vars, prune_vars, wait_vars, restart_vars, create_vars, deps_vars, trip_vars, bulk_vars, import_vars, shared_vars, safely_vars, promote_vars, clone_vars>>
execute_frame == <<client_vars, list_vars, result_vars, merge_vars, backup_vars, prune_vars, wait_vars, restart_vars, create_vars, deps_vars, trip_vars, bulk_vars, import_vars, shared_vars, safely_vars, promote_vars, clone_vars>>
backup_frame == <<client_vars, list_vars, result_vars, merge_vars, execute_vars, prune_vars, wait_vars, restart_vars, create_vars, deps_vars, trip_vars, bulk_vars, import_vars, shared_vars, safely_vars, promote_vars, clone_vars>>
prune_frame == <<client_vars, list_vars, result_vars, merge_vars, execute_vars, backup_vars, wait_vars, restart_vars, create_vars, deps_vars, trip_vars, bulk_vars, import_vars, shared_vars, safely_vars, promote_vars, clone_vars>>
wait_frame == <<client_vars, list_vars, result_vars, merge_vars, execute_vars, backup_vars, prune_vars, restart_vars, create_vars, deps_vars, trip_vars, bulk_vars, import_vars, shared_vars, safely_vars, promote_vars, clone_vars>>
restart_frame == <<client_vars, list_vars, result_vars, merge_vars, execute_vars, backup_vars, prune_vars, wait_vars, create_vars, deps_vars, trip_vars, bulk_vars, import_vars, shared_vars, safely_vars, promote_vars, clone_vars>>
create_frame == <<client_vars, list_vars, result_vars, merge_vars, execute_vars, backup_vars, prune_vars, wait_vars, restart_vars, deps_vars, trip_vars, bulk_vars, import_vars, shared_vars, safely_vars, promote_vars, clone_vars>>
deps_frame == <<client_vars, list_vars, result_vars, merge_vars, execute_vars, backup_vars, prune_vars, wait_vars, restart_vars, create_vars, trip_vars, bulk_vars, import_vars, shared_vars, safely_vars, promote_vars, clone_vars>>
trip_frame == <<client_vars, list_vars, result_vars, merge_vars, execute_vars, backup_vars, prune_vars, wait_vars, restart_vars, create_vars, deps_vars, bulk_vars, import_vars, shared_vars, safely_vars, promote_vars, clone_vars>>
bulk_frame == <<client_vars, list_vars, result_vars, merge_vars, execute_vars, backup_vars, prune_vars, wait_vars, restart_vars, create_vars, deps_vars, trip_vars, import_vars, shared_vars, safely_vars, promote_vars, clone_vars>>
import_frame == <<client_vars, list_vars, result_vars, merge_vars, execute_vars, backup_vars, prune_vars, wait_vars, restart_vars, create_vars, deps_vars, trip_vars, bulk_vars, shared_vars, safely_vars, promote_vars, clone_vars>>
shared_frame == <<client_vars, list_vars, result_vars, merge_vars, execute_vars, backup_vars, prune_vars, wait_vars, restart_vars, create_vars, deps_vars, trip_vars, bulk_vars, import_vars, safely_vars, promote_vars, clone_vars>>
safely_frame == <<client_vars, list_vars, result_vars, merge_vars, execute_vars, backup_vars, prune_vars, wait_vars, restart_vars, create_vars, deps_vars, trip_vars, bulk_vars, import_vars, shared_vars, promote_vars, clone_vars>>
promote_frame == <<client_vars, list_vars, result_vars, merge_vars, execute_vars, backup_vars, prune_vars, wait_vars, restart_vars, create_vars, deps_vars, trip_vars, bulk_vars, import_vars, shared_vars, safely_vars, clone_vars>>
clone_frame == <<client_vars, list_vars, result_vars, merge_vars, execute_vars, backup_vars, prune_vars, wait_vars, restart_vars, create_vars, deps_vars, trip_vars, bulk_vars, import_vars, shared_vars, safely_vars, promote_vars>>

-----------------------------------------------------------------------------
(* Bounds *)

\* Tokens the token endpoint can issue before it only fails.
MaxTokens == 3

\* Largest collection the server holds, and its largest page size.
MaxItems == 4
MaxPage == 2

\* Longest errors list and longest message (in message parts) explored.
MaxErrors == 2
MaxMsgLen == 2

\* Resources a list call answers with, files a backup holds per kind.
MaxResources == 2

\* The oldest backup, in days, and the largest retention_count and
\* retention_days tried.
MaxAge == 3

\* The largest max_attempts tried.
MaxAttempts == 4

\* Integrations that depend on the connection at hand.
MaxIntegrations == 2

\* Entries of the references section of an integration payload.
MaxRefs == 3
MaxRetention == 2

\* Workers that share one client.
MaxWorkers == 2

\* A ceiling under which every iterator that stops once the accumulated count
\* reaches the reported total stays: pages hold at least one item until the
\* collection is exhausted.
ListCeiling == MaxItems + 1

\* List calls explored per list_all call (the loops of list_all hold no ceiling).
MaxCalls == ListCeiling + 2

-----------------------------------------------------------------------------
(* OICClient *)

\* Python's None for a token: `self._auth_token = None`, and the value of
\* `return` without an expression in authenticate().
NoToken == 0

\* No status_code / no final response.
NoStatus == 0

Tokens == 1..MaxTokens

\* Response status codes the server may answer with.
Statuses == {200, 204, 399, 400, 401, 404, 500}

\* Shapes of a response body as request() distinguishes them:
\*   "empty"  no content            (response.json() raises ValueError)
\*   "text"   content, not JSON     (response.json() raises ValueError)
\*   "object" a JSON object         (`'detail' in error_data` is a dict lookup)
\*   "scalar" JSON null/number/bool (`'detail' in error_data` raises TypeError)
BodyKinds == {"empty", "text", "object", "scalar"}

\* Outcomes of the POST to the token endpoint made by authenticate().
AuthOutcomes == {"token", "no_token", "non_200", "transport"}

\* A slip the recursive call could hold: retry_auth passed on unchanged.
RetryFlagAlways == TRUE

\* The value request() passes as retry_auth to its recursive call.
RetryFlagOnRecursion == FALSE

\* What authenticate() returns on success: the bare `return` yields None.
AuthenticateReturn(token) == NoToken

\* request(), lines 257-292: the outcome for a response that is not retried.
HandleResponse(status, body) ==
    IF status = 404
    THEN [exc |-> "OICResourceNotFoundError", code |-> NoStatus]
    ELSE IF status >= 400
         THEN IF body = "scalar"
              THEN [exc |-> "TypeError", code |-> NoStatus]
              ELSE [exc |-> "OICAPIError", code |-> status]
         ELSE [exc |-> "ok", code |-> NoStatus]

\* The state after OICClient.__init__: authenticate() succeeded (otherwise the
\* constructor raises and there is no client), so a token is held.
ClientInit ==
    /\ auth_token = 1
    /\ session_auth = 1
    /\ issued = 1
    /\ rq_pc = "idle"
    /\ retry_auth = TRUE
    /\ rq_header = NoToken
    /\ rq_sent = 0
    /\ rq_auths = 0
    /\ rq_statuses = <<>>
    /\ rq_headers = <<>>
    /\ rq_fresh = NoToken
    /\ rq_since = 1
    /\ rq_final = <<NoStatus, "empty">>
    /\ rq_result = "none"
    /\ rq_code = NoStatus

\* A caller enters request() (get/post/put/delete/patch all pass retry_auth=True).
RequestCall ==
    /\ rq_pc = "idle"
    /\ rq_pc' = "prepare"
    /\ retry_auth' = TRUE
    /\ rq_header' = NoToken
    /\ rq_sent' = 0
    /\ rq_auths' = 0
    /\ rq_statuses' = <<>>
    /\ rq_headers' = <<>>
    /\ rq_fresh' = NoToken
    /\ rq_final' = <<NoStatus, "empty">>
    /\ rq_result' = "none"
    /\ rq_code' = NoStatus
    /\ UNCHANGED <<auth_token, session_auth, issued, rq_since>>
    /\ UNCHANGED client_frame

\* _prepare_headers -> get_auth_token with a token held: the header is the token.
PrepareHeld ==
    /\ rq_pc = "prepare"
    /\ auth_token # NoToken
    /\ rq_header' = auth_token
    /\ rq_pc' = "send"
    /\ UNCHANGED <<auth_token, session_auth, issued, retry_auth, rq_sent, rq_auths,
                   rq_statuses, rq_headers, rq_fresh, rq_since, rq_final,
                   rq_result, rq_code>>
    /\ UNCHANGED client_frame

\* _prepare_headers -> get_auth_token with no token held -> authenticate(),
\* which succeeds: the token is stored in _auth_token and in the session
\* headers, and the header of this request is built from authenticate()'s
\* return value.
PrepareAuthOk ==
    /\ rq_pc = "prepare"
    /\ auth_token = NoToken
    /\ issued < MaxTokens
    /\ issued' = issued + 1
    /\ auth_token' = issued + 1
    /\ session_auth' = issued + 1
    /\ rq_fresh' = issued + 1
    /\ rq_since' = issued + 1
    /\ rq_auths' = rq_auths + 1
    /\ rq_header' = AuthenticateReturn(issued + 1)
    /\ rq_pc' = "send"
    /\ UNCHANGED <<retry_auth, rq_sent, rq_statuses, rq_headers, rq_final,
                   rq_result, rq_code>>
    /\ UNCHANGED client_frame

\* ... authenticate() fails (status other than 200, no access_token in the
\* answer, or a transport error): OICAuthenticationError leaves request().
PrepareAuthFail ==
    /\ rq_pc = "prepare"
    /\ auth_token = NoToken
    /\ \E o \in AuthOutcomes \ {"token"} :
        /\ rq_auths' = rq_auths + 1
        /\ rq_result' = "OICAuthenticationError"
        /\ rq_pc' = "idle"
    /\ UNCHANGED <<auth_token, session_auth, issued, retry_auth, rq_header, rq_sent,
                   rq_statuses, rq_headers, rq_fresh, rq_since, rq_final, rq_code>>
    /\ UNCHANGED client_frame

\* session.request(...) answers with a 401 while retry_auth holds: the token is
\* dropped and request() calls itself.
SendRetry ==
    /\ rq_pc = "send"
    /\ retry_auth
    /\ rq_sent' = rq_sent + 1
    /\ rq_headers' = Append(rq_headers, rq_header)
    /\ rq_statuses' = Append(rq_statuses, 401)
    /\ auth_token' = NoToken
    /\ rq_since' = NoToken
    /\ retry_auth' = RetryFlagOnRecursion
    /\ rq_pc' = "prepare"
    /\ UNCHANGED <<session_auth, issued, rq_header, rq_auths, rq_fresh, rq_final,
                   rq_result, rq_code>>
    /\ UNCHANGED client_frame

\* session.request(...) answers and the response is handled as final.
SendFinal ==
    /\ rq_pc = "send"
    /\ \E status \in Statuses, body \in BodyKinds :
        /\ ~(status = 401 /\ retry_auth)
        /\ rq_statuses' = Append(rq_statuses, status)
        /\ rq_final' = <<status, body>>
        /\ rq_result' = HandleResponse(status, body).exc
        /\ rq_code' = HandleResponse(status, body).code
    /\ rq_sent' = rq_sent + 1
    /\ rq_headers' = Append(rq_headers, rq_header)
    /\ rq_pc' = "idle"
    /\ UNCHANGED <<auth_token, session_auth, issued, retry_auth, rq_header, rq_auths,
                   rq_fresh, rq_since>>
    /\ UNCHANGED client_frame

\* session.request(...) raises RequestException: wrapped as OICAPIError
\* without a status code.
SendTransportError ==
    /\ rq_pc = "send"
    /\ rq_sent' = rq_sent + 1
    /\ rq_headers' = Append(rq_headers, rq_header)
    /\ rq_result' = "OICAPIError"
    /\ rq_code' = NoStatus
    /\ rq_pc' = "idle"
    /\ UNCHANGED <<auth_token, session_auth, issued, retry_auth, rq_header, rq_auths,
                   rq_statuses, rq_fresh, rq_since, rq_final>>
    /\ UNCHANGED client_frame

NextClient ==
    \/ RequestCall
    \/ PrepareHeld
    \/ PrepareAuthOk
    \/ PrepareAuthFail
    \/ SendRetry
    \/ SendFinal
    \/ SendTransportError

-----------------------------------------------------------------------------
(* list_all of IntegrationsResource and ConnectionsResource *)

ListKinds == {"integrations", "connections"}

\* The collection the server holds, in server order.
AllItems == [i \in 1..srv_total |-> i]

Min(a, b) == IF a < b THEN a ELSE b

\* The server honours offset: the items of the page that starts at `offset`.
ServerItems(offset) ==
    LET n == IF offset >= srv_total THEN 0 ELSE Min(srv_page, srv_total - offset)
    IN  [i \in 1..n |-> offset + i]

\* The hasMore field of the page that starts at `offset`.
ServerHasMore(offset) ==
    IF srv_more = "always" THEN TRUE ELSE offset + srv_page < srv_total

\* The limit field of a page (0: absent or zero) and its totalResults field.
ServerLimit == IF srv_limit THEN srv_page ELSE 0
ServerTotalResults == srv_total

\* IntegrationsResource.list_all, lines 84-86: `if not content.get('limit'):
\* continue`, else `pages += content['limit']`.
IntegrationsAdvance(offset) ==
    IF ServerLimit = 0 THEN offset ELSE offset + ServerLimit

\* ConnectionsResource.list_all, line 80: `pages += content['totalResults']`.
ConnectionsAdvance(offset) == offset + ServerTotalResults

Advance(kind, offset) ==
    IF kind = "integrations" THEN IntegrationsAdvance(offset)
    ELSE ConnectionsAdvance(offset)

ListIdle ==
    /\ la_kind = "integrations"
    /\ la_pc = "idle"
    /\ has_more = TRUE
    /\ output = <<>>
    /\ pages = 0
    /\ la_calls = 0
    /\ la_last = NoStatus
    /\ la_result = "none"
    /\ srv_total = 0
    /\ srv_page = 1
    /\ srv_more = "honest"
    /\ srv_limit = TRUE
    /\ srv_faulty = FALSE

\* list_all is entered: has_more = True, output = [], pages = 0.  The server it
\* will talk to is fixed here.
ListAllCall ==
    /\ la_pc \in {"idle", "done"}
    /\ la_kind' \in ListKinds
    /\ srv_total' \in 0..MaxItems
    /\ srv_page' \in 1..MaxPage
    /\ srv_more' \in {"honest", "always"}
    /\ srv_limit' \in BOOLEAN
    /\ srv_faulty' \in BOOLEAN
    /\ la_pc' = "loop"
    /\ has_more' = TRUE
    /\ output' = <<>>
    /\ pages' = 0
    /\ la_calls' = 0
    /\ la_last' = NoStatus
    /\ la_result' = "none"
    /\ UNCHANGED list_frame

\* One pass of the while loop whose list call is answered with a page.
ListPage ==
    /\ la_pc = "loop"
    /\ has_more = TRUE
    /\ la_calls < MaxCalls
    /\ la_calls' = la_calls + 1
    /\ la_last' = 200
    /\ output' = output \o ServerItems(pages)
    /\ has_more' = ServerHasMore(pages)
    /\ pages' = Advance(la_kind, pages)
    /\ UNCHANGED <<la_kind, la_pc, la_result, srv_total, srv_page, srv_more,
                   srv_limit, srv_faulty>>
    /\ UNCHANGED list_frame

\* One pass of the while loop whose list call is answered with status 400:
\* client.request raises and nothing in list_all catches it.
ListError ==
    /\ la_pc = "loop"
    /\ has_more = TRUE
    /\ la_calls < MaxCalls
    /\ srv_faulty
    /\ la_calls' = la_calls + 1
    /\ la_last' = 400
    /\ la_result' = HandleResponse(400, "object").exc
    /\ la_pc' = "done"
    /\ UNCHANGED <<la_kind, has_more, output, pages, srv_total, srv_page, srv_more,
                   srv_limit, srv_faulty>>
    /\ UNCHANGED list_frame

\* The loop condition `has_more is True` fails: return output.
ListReturn ==
    /\ la_pc = "loop"
    /\ has_more # TRUE
    /\ la_result' = "returned"
    /\ la_pc' = "done"
    /\ UNCHANGED <<la_kind, has_more, output, pages, la_calls, la_last, srv_total,
                   srv_page, srv_more, srv_limit, srv_faulty>>
    /\ UNCHANGED list_frame

NextList ==
    \/ ListAllCall
    \/ ListPage
    \/ ListError
    \/ ListReturn

-----------------------------------------------------------------------------
(* WorkflowResult *)

\* A dict with no key.
EmptyMap == [k \in {} |-> k]

\* dict.update: the entries of `other` win.
MapUpdate(self, other) ==
    [k \in DOMAIN self \cup DOMAIN other |->
        IF k \in DOMAIN other THEN other[k] ELSE self[k]]

\* d[key] = value
MapPut(self, key, value) ==
    [k \in DOMAIN self \cup {key} |-> IF k = key THEN value ELSE self[k]]

\* WorkflowResult(): the dataclass defaults.  A message is the sequence of the
\* parts that merge joined with "; " (the empty sequence is "").
DefaultResult ==
    [success |-> TRUE, message |-> <<>>, details |-> EmptyMap,
     resources |-> EmptyMap, errors |-> <<>>]

\* The error_info dict of add_error (its timestamp left out): resource_id is
\* a key only when a resource id was passed.
ErrorInfo(message, resource_id) ==
    IF resource_id = "" THEN [message |-> message]
    ELSE [message |-> message, resource_id |-> resource_id]

\* A slip add_error could hold: the error is appended, success is left alone.
add_error_keeps_success(self, message, resource_id) ==
    [self EXCEPT !.errors = Append(self.errors, ErrorInfo(message, resource_id))]

\* WorkflowResult.add_error
add_error(self, message, resource_id) ==
    [self EXCEPT !.errors = Append(self.errors, ErrorInfo(message, resource_id)),
                 !.success = FALSE]

\* WorkflowResult.add_resource
add_resource(self, resource_type, resource_id, data) ==
    LET known == IF resource_type \in DOMAIN self.resources
                 THEN self.resources[resource_type] ELSE EmptyMap
    IN  [self EXCEPT !.resources =
            MapPut(self.resources, resource_type, MapPut(known, resource_id, data))]

\* A slip merge could hold: returning as soon as the other result is seen to
\* have failed, before anything else is merged.
merge_short_circuit(self, other) ==
    IF ~other.success THEN [self EXCEPT !.success = FALSE]
    ELSE [self EXCEPT
            !.message = self.message \o other.message,
            !.details = MapUpdate(self.details, other.details),
            !.resources =
                [t \in DOMAIN self.resources \cup DOMAIN other.resources |->
                    IF t \in DOMAIN other.resources
                    THEN MapUpdate(IF t \in DOMAIN self.resources
                                   THEN self.resources[t] ELSE EmptyMap,
                                   other.resources[t])
                    ELSE self.resources[t]],
            !.errors = self.errors \o other.errors]

\* A slip merge could hold: an entry self already holds is kept (setdefault
\* instead of update).
merge_keeps_own_entry(self, other) ==
    [success |-> IF ~other.success THEN FALSE ELSE self.success,
     message |-> self.message \o other.message,
     details |-> MapUpdate(self.details, other.details),
     resources |->
        [t \in DOMAIN self.resources \cup DOMAIN other.resources |->
            IF t \in DOMAIN self.resources
            THEN MapUpdate(IF t \in DOMAIN other.resources
                           THEN other.resources[t] ELSE EmptyMap,
                           self.resources[t])
            ELSE other.resources[t]],
     errors |-> self.errors \o other.errors]

\* A slip merge could hold: the success flag is taken over from the other
\* result.
merge_takes_success(self, other) ==
    [success |-> other.success,
     message |-> IF self.message # <<>> /\ other.message # <<>>
                 THEN self.message \o other.message
                 ELSE IF other.message # <<>> THEN other.message
                 ELSE self.message,
     details |-> MapUpdate(self.details, other.details),
     resources |->
        [t \in DOMAIN self.resources \cup DOMAIN other.resources |->
            IF t \in DOMAIN other.resources
            THEN MapUpdate(IF t \in DOMAIN self.resources
                           THEN self.resources[t] ELSE EmptyMap,
                           other.resources[t])
            ELSE self.resources[t]],
     errors |-> self.errors \o other.errors]

\* WorkflowResult.merge: the value of self after self.merge(other).
merge(self, other) ==
    [success |-> IF ~other.success THEN FALSE ELSE self.success,
     message |-> IF self.message # <<>> /\ other.message # <<>>
                 THEN self.message \o other.message
                 ELSE IF other.message # <<>> THEN other.message
                 ELSE self.message,
     details |-> MapUpdate(self.details, other.details),
     resources |->
        [t \in DOMAIN self.resources \cup DOMAIN other.resources |->
            IF t \in DOMAIN other.resources
            THEN MapUpdate(IF t \in DOMAIN self.resources
                           THEN self.resources[t] ELSE EmptyMap,
                           other.resources[t])
            ELSE self.resources[t]],
     errors |-> self.errors \o other.errors]

\* The results a workflow handler holds: its own and one it merges in.
ResultNames == {"result", "other"}

\* Inputs of the operations.
ResourceTypes == {"connections", "integrations"}
ResourceIds == {"r1"}
ResourceData == {"d1", "d2"}
Messages == {"m"}
DetailKeys == {"attempts"}
DetailValues == {1}
\* <<message, resource_id>> pairs passed to add_error ("" : no resource id).
ErrorArgs == {<<"e1", "">>, <<"e2", "r1">>}
AddedErrorArgs == {<<"e1", "">>}

ResultIdle == results = [r \in ResultNames |-> DefaultResult]

\* result = WorkflowResult()
NewResult ==
    /\ \E r \in ResultNames :
        results' = [results EXCEPT ![r] = DefaultResult]
    /\ UNCHANGED result_frame

\* result = WorkflowResult(success=False, message=...), as the execute
\* dispatchers build it for an unknown operation.
NewFailedResult ==
    /\ \E r \in ResultNames, m \in Messages :
        results' = [results EXCEPT
                      ![r] = [DefaultResult EXCEPT !.success = FALSE,
                                                   !.message = <<m>>]]
    /\ UNCHANGED result_frame

\* WorkflowResult.create_error(message, error)
CreateError ==
    /\ \E r \in ResultNames, m \in Messages, e \in AddedErrorArgs :
        results' = [results EXCEPT
                      ![r] = add_error([DefaultResult EXCEPT !.success = FALSE,
                                                             !.message = <<m>>],
                                       e[1], e[2])]
    /\ UNCHANGED result_frame

\* result.add_error(message, error, resource_id)
AddError ==
    /\ \E r \in ResultNames, e \in AddedErrorArgs :
        /\ Len(results[r].errors) < MaxErrors
        /\ results' = [results EXCEPT ![r] = add_error(results[r], e[1], e[2])]
    /\ UNCHANGED result_frame

\* result.add_resource(resource_type, resource_id, data)
AddResource ==
    /\ \E r \in ResultNames, t \in ResourceTypes, i \in ResourceIds,
          d \in ResourceData :
        results' = [results EXCEPT ![r] = add_resource(results[r], t, i, d)]
    /\ UNCHANGED result_frame

\* result.merge(other)
Merge ==
    /\ \E r \in ResultNames : \E o \in ResultNames \ {r} :
        /\ Len(results[r].errors) + Len(results[o].errors) <= MaxErrors
        /\ Len(results[r].message) + Len(results[o].message) <= MaxMsgLen
        /\ results' = [results EXCEPT ![r] = merge(results[r], results[o])]
    /\ UNCHANGED result_frame

\* result.success = False: the only direct assignment to success the workflow
\* handlers make.
AssignFailure ==
    /\ \E r \in ResultNames :
        results' = [results EXCEPT ![r].success = FALSE]
    /\ UNCHANGED result_frame

\* result.message = ...
AssignMessage ==
    /\ \E r \in ResultNames, m \in Messages :
        results' = [results EXCEPT ![r].message = <<m>>]
    /\ UNCHANGED result_frame

\* result.details[key] = value
AssignDetail ==
    /\ \E r \in ResultNames, k \in DetailKeys, v \in DetailValues :
        results' = [results EXCEPT ![r].details = MapPut(@, k, v)]
    /\ UNCHANGED result_frame

NextResult ==
    \/ NewResult
    \/ NewFailedResult
    \/ CreateError
    \/ AddError
    \/ AddResource
    \/ Merge
    \/ AssignFailure
    \/ AssignMessage
    \/ AssignDetail

-----------------------------------------------------------------------------
(* merge as a function of three results *)

RECURSIVE SeqsUpTo(_, _)
\* The sequences over S of length at most n.
SeqsUpTo(S, n) ==
    IF n = 0 THEN {<<>>}
    ELSE LET shorter == SeqsUpTo(S, n - 1)
         IN  shorter \cup {Append(q, x) : q \in shorter, x \in S}

\* The resources maps add_resource can build over the inputs.
TypeMaps == {f \in [ResourceIds -> ResourceData] : TRUE}
ResourceMaps ==
    UNION {[T -> TypeMaps] : T \in SUBSET ResourceTypes}

\* The error lists add_error can build, of length below MaxErrors.
ErrorLists ==
    {[i \in 1..Len(q) |-> ErrorInfo(q[i][1], q[i][2])] :
        q \in SeqsUpTo(ErrorArgs, MaxErrors - 1)}

\* The results merge is applied to: those the operations above build (an error
\* in the list comes with success = False), without message and details.
MergeInputs ==
    {[DefaultResult EXCEPT !.success = s, !.resources = rs, !.errors = es] :
        s \in BOOLEAN, rs \in ResourceMaps, es \in ErrorLists}
    \ {x \in [success : {TRUE}, message : {<<>>}, details : {EmptyMap},
              resources : ResourceMaps, errors : ErrorLists \ {<<>>}] : TRUE}

MergeIdle ==
    /\ m_a = DefaultResult
    /\ m_b = DefaultResult
    /\ m_c = DefaultResult
    /\ m_ab = DefaultResult
    /\ m_left = DefaultResult
    /\ m_right = DefaultResult
    /\ m_pc = "start"

MergeInit ==
    /\ m_a \in MergeInputs
    /\ m_b \in MergeInputs
    /\ m_c \in MergeInputs
    /\ m_ab = DefaultResult
    /\ m_left = DefaultResult
    /\ m_right = DefaultResult
    /\ m_pc = "start"

\* left = copy(a); left.merge(b); left.merge(c)
MergeLeft ==
    /\ m_pc = "start"
    /\ m_ab' = merge(m_a, m_b)
    /\ m_left' = merge(m_ab', m_c)
    /\ m_pc' = "left"
    /\ UNCHANGED <<m_a, m_b, m_c, m_right>>
    /\ UNCHANGED merge_frame

\* right = copy(a); right.merge(copy(b).merge(c))
MergeRight ==
    /\ m_pc = "left"
    /\ m_right' = merge(m_a, merge(m_b, m_c))
    /\ m_pc' = "done"
    /\ UNCHANGED <<m_a, m_b, m_c, m_ab, m_left>>
    /\ UNCHANGED merge_frame

NextMerge ==
    \/ MergeLeft
    \/ MergeRight

-----------------------------------------------------------------------------
(* Specifications *)


-----------------------------------------------------------------------------
(* The execute dispatcher of every workflow family *)

\* kwargs.pop("operation", None) when no operation was passed
NoOperation == "None"
NoHandler == "none"

\* The operations each execute routes, by family: operation name -> method.
BackupOperations ==
    [full_backup |-> "backup_all_resources",
     selective_backup |-> "backup_selected_resources",
     backup_integrations |-> "backup_integrations",
     backup_lookups |-> "backup_lookups",
     backup_connections |-> "backup_connections",
     restore_backup |-> "restore_from_backup",
     prune_backups |-> "prune_old_backups"]

ConnectionOperations ==
    [update_credentials |-> "update_credentials",
     test_all |-> "test_all_connections",
     find_dependents |-> "find_dependent_integrations",
     update_and_restart |-> "update_credentials_and_restart_integrations"]

DeploymentOperations ==
    [export_integration |-> "export_integration",
     import_integration |-> "import_integration",
     promote_integration |-> "promote_integration",
     export_package |-> "export_package",
     import_package |-> "import_package",
     clone_environment |-> "clone_environment"]

IntegrationOperations ==
    [bulk_activate |-> "bulk_activate_integrations",
     bulk_deactivate |-> "bulk_deactivate_integrations",
     manage_schedules |-> "manage_integration_schedules",
     find_dependencies |-> "find_integration_dependencies",
     restart |-> "restart_integration",
     trace_instances |-> "trace_integration_instances"]

MonitoringOperations ==
    [health_check |-> "perform_health_check",
     error_analysis |-> "analyze_errors",
     performance_metrics |-> "collect_performance_metrics",
     purge_instances |-> "purge_integration_instances",
     generate_report |-> "generate_monitoring_report"]

ScheduleOperations ==
    [update_schedules |-> "update_integration_schedules",
     export_schedules |-> "export_integration_schedules",
     import_schedules |-> "import_integration_schedules",
     validate_schedules |-> "validate_integration_schedules",
     list_schedules |-> "list_integration_schedules"]

ValidationOperations ==
    [validate_connections |-> "validate_connections",
     validate_integrations |-> "validate_integrations",
     best_practices |-> "validate_best_practices",
     configuration_check |-> "validate_configuration",
     naming_conventions |-> "validate_naming_conventions"]

WorkflowFamilies ==
    [Backup |-> BackupOperations, Connection |-> ConnectionOperations,
     Deployment |-> DeploymentOperations, Integration |-> IntegrationOperations,
     Monitoring |-> MonitoringOperations, Schedule |-> ScheduleOperations,
     Validation |-> ValidationOperations]

\* The operation keywords tried: every name some family routes, a name no
\* family routes, and no operation at all.
OperationNames ==
    UNION {DOMAIN WorkflowFamilies[f] : f \in DOMAIN WorkflowFamilies}
        \cup {"no_such_operation", NoOperation}

\* A slip the else branch could hold: the result is built, no error is added.
UnknownOperationBare(family, operation) ==
    [DefaultResult EXCEPT !.success = FALSE,
        !.message = <<<<"Unknown workflow operation", family, operation>>>>]

\* The else branch of execute: WorkflowResult(success=False, message=...)
\* followed by add_error.
UnknownOperationResult(family, operation) ==
    add_error([DefaultResult EXCEPT !.success = FALSE,
                  !.message = <<<<"Unknown workflow operation", family, operation>>>>],
              <<"Unknown operation", operation>>, "")

\* What a routed workflow method hands back is outside the dispatcher: some
\* result, after some gateway calls, or an exception.
HandlerOutcomes ==
    {[gateway |-> g, raised |-> r, success |-> s] :
        g \in 0..1, r \in BOOLEAN, s \in BOOLEAN}

ExecuteIdle ==
    /\ ex_pc = "idle"
    /\ ex_family = "Backup"
    /\ ex_operation = NoOperation
    /\ ex_handler = NoHandler
    /\ ex_gateway = 0
    /\ ex_raised = FALSE
    /\ ex_result = DefaultResult

\* execute(operation=...) with an operation the family routes: the if chain
\* calls the workflow method.
ExecuteRouted ==
    /\ ex_pc \in {"idle", "returned"}
    /\ \E f \in DOMAIN WorkflowFamilies : \E op \in DOMAIN WorkflowFamilies[f] :
        /\ ex_family' = f
        /\ ex_operation' = op
        /\ ex_handler' = WorkflowFamilies[f][op]
    /\ ex_pc' = "handler"
    /\ ex_gateway' = 0
    /\ ex_raised' = FALSE
    /\ ex_result' = DefaultResult
    /\ UNCHANGED execute_frame

\* The routed workflow method ends; execute returns what it returned.
ExecuteHandlerEnds ==
    /\ ex_pc = "handler"
    /\ \E o \in HandlerOutcomes :
        /\ ex_gateway' = o.gateway
        /\ ex_raised' = o.raised
        /\ ex_result' = IF o.raised THEN ex_result
                        ELSE [DefaultResult EXCEPT !.success = o.success]
    /\ ex_pc' = "returned"
    /\ UNCHANGED <<ex_family, ex_operation, ex_handler>>
    /\ UNCHANGED execute_frame

\* execute with an operation the family does not route, or with none: the
\* else branch, the whole call.
ExecuteUnknown ==
    /\ ex_pc \in {"idle", "returned"}
    /\ \E f \in DOMAIN WorkflowFamilies :
       \E op \in OperationNames \ DOMAIN WorkflowFamilies[f] :
        /\ ex_family' = f
        /\ ex_operation' = op
        /\ ex_result' = UnknownOperationResult(f, op)
    /\ ex_handler' = NoHandler
    /\ ex_gateway' = 0
    /\ ex_raised' = FALSE
    /\ ex_pc' = "returned"
    /\ UNCHANGED execute_frame

NextExecute ==
    \/ ExecuteRouted
    \/ ExecuteHandlerEnds
    \/ ExecuteUnknown


-----------------------------------------------------------------------------
(* BackupWorkflows.backup_all_resources and restore_from_backup *)

\* The modules workflows/backup.py imports; a name outside them (and outside
\* the builtins) raises NameError where it is evaluated.
ModuleImports == {"datetime", "glob", "json", "os", "shutil"}

Resolves(name) == name \in ModuleImports

\* The kinds in the order both workflows go through them.
ResourceKinds == <<"integrations", "connections", "lookups", "libraries", "packages">>

\* The kinds a call goes through: packages only if include_packages.
LastKind == IF bk_op = "backup" /\ ~bk_packages THEN 4 ELSE 5

BackupIdle ==
    /\ bk_op = "backup"
    /\ bk_pc = "idle"
    /\ bk_continue = TRUE
    /\ bk_packages = TRUE
    /\ bk_filter = FALSE
    /\ bk_kind = 1
    /\ bk_items = <<>>
    /\ bk_i = 1
    /\ bk_listed = {}
    /\ bk_calls = <<>>
    /\ bk_failed = FALSE
    /\ bk_after = 0
    /\ bk_nfailed = 0
    /\ bk_end = "running"
    /\ bk_result = DefaultResult

\* The state on entry of either workflow, after the directories are made.
BackupEntry(op, continue_on_error, include_packages, filter_pattern) ==
    /\ bk_op' = op
    /\ bk_pc' = "list"
    /\ bk_continue' = continue_on_error
    /\ bk_packages' = include_packages
    /\ bk_filter' = filter_pattern
    /\ bk_kind' = 1
    /\ bk_items' = <<>>
    /\ bk_i' = 1
    /\ bk_listed' = {}
    /\ bk_calls' = <<>>
    /\ bk_failed' = FALSE
    /\ bk_after' = 0
    /\ bk_nfailed' = 0
    /\ bk_end' = "running"
    /\ bk_result' = DefaultResult

\* The call leaves by an exception no handler of the workflow catches.
BackupRaises(exception) ==
    /\ bk_pc' = "done"
    /\ bk_end' = exception
    /\ UNCHANGED <<bk_op, bk_continue, bk_packages, bk_filter, bk_kind, bk_items,
                   bk_i, bk_listed, bk_calls, bk_after, bk_nfailed, bk_result>>

\* One export or import call for resource bk_i of the kind at hand, and what
\* the workflow does with its outcome (ok, or an OICError).
ResourceCall(ok) ==
    /\ bk_calls' = Append(bk_calls, <<bk_kind, bk_i>>)
    /\ bk_after' = IF bk_failed THEN bk_after + 1 ELSE bk_after
    /\ bk_failed' = (bk_failed \/ ~ok)
    /\ bk_nfailed' = IF ok THEN bk_nfailed ELSE bk_nfailed + 1
    /\ IF ok \/ bk_continue
       THEN /\ bk_i' = bk_i + 1
            /\ UNCHANGED <<bk_pc, bk_kind, bk_result>>
       ELSE \* result.success = False; add_error; break: the loop of this kind ends
            /\ bk_result' = add_error(bk_result, "Failed to export or import", "r")
            /\ bk_pc' = "list"
            /\ bk_kind' = bk_kind + 1
            /\ UNCHANGED bk_i
    /\ UNCHANGED <<bk_op, bk_continue, bk_packages, bk_filter, bk_items,
                   bk_listed, bk_end>>


\* backup_all_resources(backup_dir, ...) is called.
BackupCall ==
    /\ bk_pc \in {"idle", "done"}
    /\ \E c \in BOOLEAN, p \in BOOLEAN : BackupEntry("backup", c, p, FALSE)
    /\ UNCHANGED backup_frame

\* restore_from_backup(backup_path, ...) is called with the default
\* resource_types.
RestoreCall ==
    /\ bk_pc \in {"idle", "done"}
    /\ \E c \in BOOLEAN, f \in BOOLEAN : BackupEntry("restore", c, TRUE, f)
    /\ UNCHANGED backup_frame

\* "Back up <kind>": self.client.<kind>.list() raises an OICError, or answers
\* with resources, some of them without an id.
BackupList ==
    /\ bk_op = "backup" /\ bk_pc = "list" /\ bk_kind <= LastKind
    /\ \/ \* except OICError: add_error; return unless continue_on_error
          /\ bk_result' = add_error(bk_result, "Failed to back up", "")
          /\ IF bk_continue
             THEN bk_kind' = bk_kind + 1 /\ UNCHANGED <<bk_pc, bk_end>>
             ELSE bk_pc' = "done" /\ bk_end' = "returned" /\ UNCHANGED bk_kind
          /\ UNCHANGED <<bk_items, bk_i, bk_listed>>
       \/ \E items \in SeqsUpTo(BOOLEAN, MaxResources) :
          /\ bk_items' = items
          /\ bk_i' = 1
          /\ bk_listed' = bk_listed \cup
                {<<bk_kind, j>> : j \in {k \in 1..Len(items) : items[k]}}
          /\ bk_pc' = "items"
          /\ UNCHANGED <<bk_kind, bk_end, bk_result>>
    /\ UNCHANGED <<bk_op, bk_continue, bk_packages, bk_filter, bk_calls,
                   bk_failed, bk_after, bk_nfailed>>
    /\ UNCHANGED backup_frame

\* One round of "for <resource> in <resources>": a resource without an id is
\* skipped; for the others the export path is built with _sanitize_filename,
\* which evaluates re.sub, and then the export call is made.
BackupResource ==
    /\ bk_op = "backup" /\ bk_pc = "items" /\ bk_i <= Len(bk_items)
    /\ IF ~bk_items[bk_i]
       THEN /\ bk_i' = bk_i + 1
            /\ UNCHANGED <<bk_op, bk_pc, bk_continue, bk_packages, bk_filter,
                           bk_kind, bk_items, bk_listed, bk_calls, bk_failed,
                           bk_after, bk_nfailed, bk_end, bk_result>>
       ELSE IF ~Resolves("re")
       THEN BackupRaises("NameError") /\ bk_failed' = TRUE
       ELSE \E ok \in BOOLEAN : ResourceCall(ok)
    /\ UNCHANGED backup_frame

\* restore_from_backup, one round of "for resource_type in resource_types":
\* the directory of the kind is missing, or glob lists its files; a
\* filter_pattern is compiled with re.compile.
RestoreList ==
    /\ bk_op = "restore" /\ bk_pc = "list" /\ bk_kind <= LastKind
    /\ \/ /\ bk_kind' = bk_kind + 1
          /\ UNCHANGED <<bk_op, bk_pc, bk_continue, bk_packages, bk_filter,
                         bk_items, bk_i, bk_listed, bk_calls, bk_failed,
                         bk_after, bk_nfailed, bk_end, bk_result>>
       \/ IF bk_filter /\ ~Resolves("re")
          THEN BackupRaises("NameError") /\ UNCHANGED bk_failed
          ELSE \E n \in 0..MaxResources :
                /\ bk_items' = [j \in 1..n |-> TRUE]
                /\ bk_i' = 1
                /\ bk_listed' = bk_listed \cup {<<bk_kind, j>> : j \in 1..n}
                /\ bk_pc' = "items"
                /\ UNCHANGED <<bk_op, bk_continue, bk_packages, bk_filter,
                               bk_kind, bk_calls, bk_failed, bk_after,
                               bk_nfailed, bk_end, bk_result>>
    /\ UNCHANGED backup_frame

\* One round of "for resource_file in resource_files": the file name is
\* taken apart with re.match, then the import call of the kind is made.
RestoreResource ==
    /\ bk_op = "restore" /\ bk_pc = "items" /\ bk_i <= Len(bk_items)
    /\ IF ~Resolves("re")
       THEN BackupRaises("NameError") /\ bk_failed' = TRUE
       ELSE \E ok \in BOOLEAN : ResourceCall(ok)
    /\ UNCHANGED backup_frame

\* The loop over the resources of a kind is exhausted: on to the next kind.
ResourceLoopEnds ==
    /\ bk_pc = "items" /\ bk_i > Len(bk_items)
    /\ bk_pc' = "list"
    /\ bk_kind' = bk_kind + 1
    /\ UNCHANGED <<bk_op, bk_continue, bk_packages, bk_filter, bk_items, bk_i,
                   bk_listed, bk_calls, bk_failed, bk_after, bk_nfailed, bk_end,
                   bk_result>>
    /\ UNCHANGED backup_frame

\* After the last kind: the totals are computed, success is cleared when a
\* 'failed' counter is positive, and the result is returned.
BackupReturn ==
    /\ bk_pc = "list" /\ bk_kind > LastKind
    /\ bk_result' = IF bk_nfailed > 0 THEN [bk_result EXCEPT !.success = FALSE]
                    ELSE bk_result
    /\ bk_pc' = "done"
    /\ bk_end' = "returned"
    /\ UNCHANGED <<bk_op, bk_continue, bk_packages, bk_filter, bk_kind, bk_items,
                   bk_i, bk_listed, bk_calls, bk_failed, bk_after, bk_nfailed>>
    /\ UNCHANGED backup_frame

NextBackup ==
    \/ BackupCall
    \/ RestoreCall
    \/ BackupList
    \/ BackupResource
    \/ RestoreList
    \/ RestoreResource
    \/ ResourceLoopEnds
    \/ BackupReturn


-----------------------------------------------------------------------------
(* BackupWorkflows.prune_old_backups *)

\* Daily backups: one per age in days, age 0 written today.
Ages == 0..MaxAge

RECURSIVE NewestFirst(_)
\* backups_info.sort(key=timestamp, reverse=True): the youngest age first.
NewestFirst(S) ==
    IF S = {} THEN <<>>
    ELSE LET youngest == CHOOSE a \in S : \A b \in S : a <= b
         IN  <<youngest>> \o NewestFirst(S \ {youngest})

\* The parse loop: each round evaluates re.search inside try / except
\* Exception, so a round that raises only skips its backup.
ParsedBackups(found) == IF Resolves("re") THEN found ELSE {}

\* backup['timestamp'] >= cutoff_date, the cutoff lying retention_days back.
WithinRetention(age, retention_days) == age <= retention_days

\* backups_to_keep as the if / else on len(backups_info) builds it.
BackupsToKeep(info, retention_count, retention_days) ==
    IF Len(info) <= retention_count THEN info
    ELSE SubSeq(info, 1, retention_count) \o
         SelectSeq(SubSeq(info, retention_count + 1, Len(info)),
                   LAMBDA a : WithinRetention(a, retention_days))

\* backups_to_delete likewise.
BackupsToDelete(info, retention_count, retention_days) ==
    IF Len(info) <= retention_count THEN <<>>
    ELSE SelectSeq(SubSeq(info, retention_count + 1, Len(info)),
                   LAMBDA a : ~WithinRetention(a, retention_days))

\* A slip the deletion could hold: everything found that is not in the keep
\* list is removed, dry run or not.
RemovedNotKept(dry_run, found, keep, delete) ==
    found \ {keep[i] : i \in 1..Len(keep)}

\* The paths the call removes: those of backups_to_delete, unless dry_run.
Removed(dry_run, found, keep, delete) ==
    IF dry_run THEN {} ELSE {delete[i] : i \in 1..Len(delete)}

PruneIdle ==
    /\ pr_pc = "idle"
    /\ pr_exists = TRUE
    /\ pr_disk = {}
    /\ pr_before = {}
    /\ pr_count = 0
    /\ pr_days = 0
    /\ pr_dry_run = TRUE
    /\ pr_keep = <<>>
    /\ pr_delete = <<>>
    /\ pr_success = TRUE

\* The backup directory as a call may find it.
PruneInit ==
    /\ pr_pc = "idle"
    /\ pr_exists \in BOOLEAN
    /\ pr_disk \in SUBSET Ages
    /\ pr_exists = FALSE => pr_disk = {}
    /\ pr_before = pr_disk
    /\ pr_count = 0
    /\ pr_days = 0
    /\ pr_dry_run = TRUE
    /\ pr_keep = <<>>
    /\ pr_delete = <<>>
    /\ pr_success = TRUE

\* prune_old_backups(backup_dir, retention_days, retention_count, dry_run)
\* on a directory that exists: the whole call.
PruneCall ==
    /\ pr_exists
    /\ \E c \in 0..MaxRetention, t \in 0..MaxRetention, dry \in BOOLEAN :
        LET info == NewestFirst(ParsedBackups(pr_disk))
            keep == BackupsToKeep(info, c, t)
            delete == BackupsToDelete(info, c, t)
        IN  /\ pr_count' = c
            /\ pr_days' = t
            /\ pr_dry_run' = dry
            /\ pr_keep' = IF pr_disk = {} THEN <<>> ELSE keep
            /\ pr_delete' = IF pr_disk = {} THEN <<>> ELSE delete
            /\ pr_disk' = IF pr_disk = {} THEN pr_disk
                          ELSE pr_disk \ Removed(dry, pr_disk, keep, delete)
    /\ pr_before' = pr_disk
    /\ pr_success' = TRUE
    /\ pr_pc' = "done"
    /\ UNCHANGED pr_exists
    /\ UNCHANGED prune_frame

\* The call on a path that is no directory: the early return.
PruneNoDirectory ==
    /\ ~pr_exists
    /\ \E c \in 0..MaxRetention, t \in 0..MaxRetention, dry \in BOOLEAN :
        /\ pr_count' = c
        /\ pr_days' = t
        /\ pr_dry_run' = dry
    /\ pr_success' = FALSE
    /\ pr_pc' = "done"
    /\ pr_before' = pr_disk
    /\ UNCHANGED <<pr_exists, pr_disk, pr_keep, pr_delete>>
    /\ UNCHANGED prune_frame

NextPrune ==
    \/ PruneCall
    \/ PruneNoDirectory


-----------------------------------------------------------------------------
(* BaseWorkflow.wait_for_operation *)

\* What one round of the loop comes to: check_result accepts the data
\* check_operation returned, or rejects it, or check_operation raises an OICError.
CheckOutcomes == {"satisfied", "unsatisfied", "OICError"}

\* A slip the except clause could hold: an OICError ends the polling.
NextAttemptBreaksOnError(outcome, attempt, max_attempts) ==
    IF outcome = "OICError" THEN max_attempts ELSE attempt + 1

\* The loop variable after a round that did not return: the OICError is
\* logged, time.sleep(interval_seconds), and range() goes on.
NextAttempt(outcome, attempt, max_attempts) == attempt + 1

WaitIdle ==
    /\ w_pc = "idle"
    /\ w_max = 0
    /\ w_attempt = 0
    /\ w_outcomes = <<>>
    /\ w_result = DefaultResult

\* wait_for_operation(check_operation, check_result, max_attempts, ...) is called.
WaitCall ==
    /\ w_pc \in {"idle", "done"}
    /\ w_max' \in 0..MaxAttempts
    /\ w_attempt' = 0
    /\ w_outcomes' = <<>>
    /\ w_result' = DefaultResult
    /\ w_pc' = "loop"
    /\ UNCHANGED wait_frame

\* One round of "for attempt in range(max_attempts)".
WaitCheck ==
    /\ w_pc = "loop" /\ w_attempt < w_max
    /\ \E o \in CheckOutcomes :
        /\ w_outcomes' = Append(w_outcomes, o)
        /\ IF o = "satisfied"
           THEN /\ w_result' = [w_result EXCEPT !.details =
                        MapPut(MapPut(w_result.details, "attempts", w_attempt + 1),
                               "completed", TRUE)]
                /\ w_pc' = "done"
                /\ UNCHANGED w_attempt
           ELSE /\ w_attempt' = NextAttempt(o, w_attempt, w_max)
                /\ UNCHANGED <<w_pc, w_result>>
    /\ UNCHANGED w_max
    /\ UNCHANGED wait_frame

\* The loop is exhausted: the timeout result.
WaitTimeout ==
    /\ w_pc = "loop" /\ w_attempt >= w_max
    /\ w_result' = add_error(
            [w_result EXCEPT
                !.success = FALSE,
                !.message = <<"Operation did not complete in the allotted time">>,
                !.details = MapPut(MapPut(w_result.details, "attempts", w_max),
                                   "completed", FALSE)],
            "Timeout waiting for operation to complete", "")
    /\ w_pc' = "done"
    /\ UNCHANGED <<w_max, w_attempt, w_outcomes>>
    /\ UNCHANGED wait_frame

NextWait ==
    \/ WaitCall
    \/ WaitCheck
    \/ WaitTimeout


-----------------------------------------------------------------------------
(* IntegrationWorkflows.restart_integration and
   ConnectionWorkflows.update_credentials_and_restart_integrations *)

Integrations == 1..MaxIntegrations

\* The connection of update_credentials is no integration: id 0 in rs_log.
TheConnection == 0

\* The status field of an integration as a get may answer it.
IntegrationStatuses == {"ACTIVATED", "CONFIGURED", "ERROR"}

\* A gateway call and how it came out: "ok", "OICError", or for a get of an
\* integration the status it answered.
Call(op, id, out) == [op |-> op, id |-> id, out |-> out]

\* What a status read may come to.
ReadOutcomes == IntegrationStatuses \cup {"OICError"}

RestartIdle ==
    /\ rs_wf = "restart"
    /\ rs_pc = "idle"
    /\ rs_scope = "all"
    /\ rs_verify = TRUE
    /\ rs_sequential = TRUE
    /\ rs_todo = <<>>
    /\ rs_cur = 1
    /\ rs_ok = TRUE
    /\ rs_nfailed = 0
    /\ rs_log = <<>>
    /\ rs_result = DefaultResult

\* The workflow returns result with one more error (add_error clears success).
RestartFails(log, message) ==
    /\ rs_log' = log
    /\ rs_result' = add_error(rs_result, message, "r")
    /\ rs_pc' = "done"
    /\ UNCHANGED <<rs_wf, rs_scope, rs_verify, rs_sequential, rs_todo, rs_cur,
                   rs_ok, rs_nfailed>>

\* restart_integration(integration_id, verify_restart, wait_time) is called
\* and gets the integration: an OICError ends it, otherwise the status read
\* decides whether a deactivation comes first.
RestartGet ==
    /\ rs_pc \in {"idle", "done"}
    /\ rs_wf' = "restart"
    /\ \E v \in BOOLEAN, i \in Integrations, out \in ReadOutcomes :
        /\ rs_verify' = v
        /\ rs_log' = <<Call("get", i, out)>>
        /\ rs_todo' = <<<<i, out>>>>
        /\ IF out = "OICError"
           THEN rs_result' = add_error(DefaultResult, "Failed to get integration", "r")
                /\ rs_pc' = "done"
           ELSE rs_result' = DefaultResult
                /\ rs_pc' = IF out = "ACTIVATED" THEN "deactivate" ELSE "activate"
    /\ rs_cur' = 1
    /\ rs_ok' = TRUE
    /\ rs_nfailed' = 0
    /\ UNCHANGED <<rs_scope, rs_sequential>>
    /\ UNCHANGED restart_frame

\* "Deactivate the integration if it's active": the deactivate call, one
\* sleep of wait_time, and with verify_restart one get of the status.
RestartDeactivate ==
    /\ rs_wf = "restart" /\ rs_pc = "deactivate"
    /\ LET i == rs_todo[rs_cur][1] IN
       \/ RestartFails(Append(rs_log, Call("deactivate", i, "OICError")),
                       "Failed to deactivate integration")
       \/ /\ ~rs_verify
          /\ rs_log' = Append(rs_log, Call("deactivate", i, "ok"))
          /\ rs_pc' = "activate"
          /\ UNCHANGED <<rs_wf, rs_scope, rs_verify, rs_sequential, rs_todo,
                         rs_cur, rs_ok, rs_nfailed, rs_result>>
       \/ /\ rs_verify
          /\ \E out \in ReadOutcomes :
              LET log == rs_log \o <<Call("deactivate", i, "ok"), Call("get", i, out)>>
              IN  IF out = "OICError"
                  THEN RestartFails(log, "Failed to verify deactivation")
                  ELSE IF out = "ACTIVATED"
                  THEN RestartFails(log, "Deactivation verification failed")
                  ELSE /\ rs_log' = log
                       /\ rs_pc' = "activate"
                       /\ UNCHANGED <<rs_wf, rs_scope, rs_verify, rs_sequential,
                                      rs_todo, rs_cur, rs_ok, rs_nfailed, rs_result>>
    /\ UNCHANGED restart_frame

\* "Activate the integration": the activate call, one sleep of wait_time, and
\* with verify_restart one get of the status; then the workflow returns.
RestartActivate ==
    /\ rs_wf = "restart" /\ rs_pc = "activate"
    /\ LET i == rs_todo[rs_cur][1] IN
       \/ RestartFails(Append(rs_log, Call("activate", i, "OICError")),
                       "Failed to activate integration")
       \/ /\ ~rs_verify
          /\ rs_log' = Append(rs_log, Call("activate", i, "ok"))
          /\ rs_pc' = "done"
          /\ UNCHANGED <<rs_wf, rs_scope, rs_verify, rs_sequential, rs_todo,
                         rs_cur, rs_ok, rs_nfailed, rs_result>>
       \/ /\ rs_verify
          /\ \E out \in ReadOutcomes :
              LET log == rs_log \o <<Call("activate", i, "ok"), Call("get", i, out)>>
              IN  IF out = "OICError"
                  THEN RestartFails(log, "Failed to verify activation")
                  ELSE IF out # "ACTIVATED"
                  THEN RestartFails(log, "Activation verification failed")
                  ELSE /\ rs_log' = log
                       /\ rs_pc' = "done"
                       /\ UNCHANGED <<rs_wf, rs_scope, rs_verify, rs_sequential,
                                      rs_todo, rs_cur, rs_ok, rs_nfailed, rs_result>>
    /\ UNCHANGED restart_frame


\* What update_credentials(test_connection=True) may come to, with the
\* gateway calls it has made by then.
UpdateOutcomes ==
    [get_failed |-> <<Call("get_connection", TheConnection, "OICError")>>,
     no_fields |-> <<Call("get_connection", TheConnection, "ok")>>,
     update_failed |-> <<Call("get_connection", TheConnection, "ok"),
                         Call("update", TheConnection, "OICError")>>,
     test_failed |-> <<Call("get_connection", TheConnection, "ok"),
                       Call("update", TheConnection, "ok"),
                       Call("test", TheConnection, "FAILURE")>>,
     test_error |-> <<Call("get_connection", TheConnection, "ok"),
                      Call("update", TheConnection, "ok"),
                      Call("test", TheConnection, "OICError")>>,
     ok |-> <<Call("get_connection", TheConnection, "ok"),
              Call("update", TheConnection, "ok"),
              Call("test", TheConnection, "SUCCESS")>>]

\* The result update_credentials returns: every outcome but ok goes
\* through add_error.
UpdateResult(outcome) ==
    IF outcome = "ok" THEN DefaultResult
    ELSE add_error(DefaultResult, outcome, "c")

\* A slip the restart loop could hold: restart_success is not cleared when
\* the deactivation raised.
DeactivationIgnored(call_ok, read_ok) == TRUE

\* restart_success after step 4a: the deactivate call and the get that
\* verifies it sit in one try; an OICError of either clears it.
DeactivationSucceeded(call_ok, read_ok) == call_ok /\ read_ok

\* update_credentials_and_restart_integrations is called: step 1,
\* update_credentials, its result merged; the return when it failed and
\* the return when restart_scope is "none".
UpdateCredentials ==
    /\ rs_pc \in {"idle", "done"}
    /\ rs_wf' = "update_and_restart"
    /\ \E s \in {"all", "active", "none"}, v \in BOOLEAN, q \in BOOLEAN,
          o \in DOMAIN UpdateOutcomes :
        /\ rs_scope' = s
        /\ rs_verify' = v
        /\ rs_sequential' = q
        /\ rs_log' = UpdateOutcomes[o]
        /\ rs_result' = merge(DefaultResult, UpdateResult(o))
        /\ rs_pc' = IF o = "ok" /\ s # "none" THEN "find" ELSE "done"
    /\ rs_todo' = <<>>
    /\ rs_cur' = 1
    /\ rs_ok' = TRUE
    /\ rs_nfailed' = 0
    /\ UNCHANGED restart_frame

\* The dependents with their status in the order of the resources dict;
\* restart_scope "active" leaves out those not ACTIVATED.
IntegrationsToRestart(deps, scope) ==
    SelectSeq([n \in 1..MaxIntegrations |->
                  IF n \in DOMAIN deps THEN <<n, deps[n]>> ELSE <<n, "none">>],
              LAMBDA e : /\ e[2] # "none"
                         /\ scope = "active" => e[2] = "ACTIVATED")

\* Steps 2 and 3: find_dependent_integrations, its result merged, and the
\* list of integrations to restart; the return when there is none.
FindDependents ==
    /\ rs_wf = "update_and_restart" /\ rs_pc = "find"
    /\ \/ \* find_dependent_integrations failed: reported, no resources
          /\ rs_log' = Append(rs_log, Call("find", TheConnection, "OICError"))
          /\ rs_result' = merge(rs_result,
                                add_error(DefaultResult, "Failed to get", ""))
          /\ rs_todo' = <<>>
          /\ rs_pc' = "done"
       \/ \E D \in SUBSET Integrations : \E deps \in [D -> IntegrationStatuses] :
          LET todo == IntegrationsToRestart(deps, rs_scope)
              found == IntegrationsToRestart(deps, "all")
              gets == [n \in 1..Len(found) |-> Call("get", found[n][1], found[n][2])]
          IN  /\ rs_log' = Append(rs_log, Call("find", TheConnection, "ok")) \o gets
              /\ rs_result' = rs_result
              /\ rs_todo' = todo
              /\ rs_pc' = IF todo = <<>> THEN "done" ELSE "deactivate"
    /\ rs_cur' = 1
    /\ rs_ok' = TRUE
    /\ UNCHANGED <<rs_wf, rs_scope, rs_verify, rs_sequential, rs_nfailed>>
    /\ UNCHANGED restart_frame


\* Step 4a for the integration at hand: deactivate when it was read as
\* ACTIVATED, then with sequential_restart a sleep and with verify_restart one
\* get, whose status is only logged.
DependentDeactivate ==
    /\ rs_wf = "update_and_restart" /\ rs_pc = "deactivate"
    /\ LET i == rs_todo[rs_cur][1]
           deactivate_needed == rs_todo[rs_cur][2] = "ACTIVATED"
       IN  IF ~deactivate_needed
           THEN rs_ok' = TRUE /\ UNCHANGED rs_log
           ELSE \/ /\ rs_log' = Append(rs_log, Call("deactivate", i, "OICError"))
                   /\ rs_ok' = DeactivationSucceeded(FALSE, TRUE)
                \/ /\ ~(rs_sequential /\ rs_verify)
                   /\ rs_log' = Append(rs_log, Call("deactivate", i, "ok"))
                   /\ rs_ok' = DeactivationSucceeded(TRUE, TRUE)
                \/ /\ rs_sequential /\ rs_verify
                   /\ \E out \in ReadOutcomes :
                       /\ rs_log' = rs_log \o <<Call("deactivate", i, "ok"),
                                                Call("get", i, out)>>
                       /\ rs_ok' = DeactivationSucceeded(TRUE, out # "OICError")
    /\ rs_pc' = "activate"
    /\ UNCHANGED <<rs_wf, rs_scope, rs_verify, rs_sequential, rs_todo, rs_cur,
                   rs_nfailed, rs_result>>
    /\ UNCHANGED restart_frame

\* The restart of the integration at hand is recorded and the loop goes on,
\* or after the last integration the workflow returns.
RestartRecorded(log, restart_success) ==
    /\ rs_log' = log
    /\ rs_result' = IF restart_success THEN rs_result
                    ELSE add_error(rs_result, "Failed to restart integration", "r")
    /\ rs_nfailed' = IF restart_success THEN rs_nfailed ELSE rs_nfailed + 1
    /\ rs_cur' = rs_cur + 1
    /\ rs_pc' = IF rs_cur = Len(rs_todo) THEN "done" ELSE "deactivate"
    /\ rs_ok' = restart_success
    /\ UNCHANGED <<rs_wf, rs_scope, rs_verify, rs_sequential, rs_todo>>

\* Step 4b: activate if restart_success, a sleep and one get as in 4a, the
\* status now deciding; then the bookkeeping of the restart.
DependentActivate ==
    /\ rs_wf = "update_and_restart" /\ rs_pc = "activate"
    /\ LET i == rs_todo[rs_cur][1] IN
       IF ~rs_ok
       THEN RestartRecorded(rs_log, FALSE)
       ELSE \/ RestartRecorded(Append(rs_log, Call("activate", i, "OICError")), FALSE)
            \/ /\ ~(rs_sequential /\ rs_verify)
               /\ RestartRecorded(Append(rs_log, Call("activate", i, "ok")), TRUE)
            \/ /\ rs_sequential /\ rs_verify
               /\ \E out \in ReadOutcomes :
                   RestartRecorded(rs_log \o <<Call("activate", i, "ok"),
                                               Call("get", i, out)>>,
                                   out = "ACTIVATED")
    /\ UNCHANGED restart_frame

NextRestart ==
    \/ RestartGet
    \/ RestartDeactivate
    \/ RestartActivate
    \/ UpdateCredentials
    \/ FindDependents
    \/ DependentDeactivate
    \/ DependentActivate


-----------------------------------------------------------------------------
(* ConnectionsResource.create *)

\* self.base_path of ConnectionsResource
ConnectionsBasePath == "/ic/api/integration/v1/connections"

\* The fields a data dict of the model may carry.
DataFields == {"name", "identifier", "connectionType", "description"}

\* A slip the validation could hold: connectionType is not required.
RequiredFieldsShort == {"name", "identifier"}

\* required_fields of create
RequiredFields == {"name", "identifier", "connectionType"}

\* "field not in data": a key that maps to None is in the dict.
InData(field, data) == data[field] # "absent"

\* What client.post may come to.
PostOutcomes ==
    {"created", "OICAPIError", "OICResourceNotFoundError", "OICAuthenticationError"}

CreateIdle ==
    /\ cr_pc = "idle"
    /\ cr_data = [f \in DataFields |-> "absent"]
    /\ cr_posts = <<>>
    /\ cr_result = "none"

\* connections.create(data): the validation loop, then BaseResource.create,
\* which posts the data to the endpoint without resource id.
ConnectionsCreate ==
    /\ \E data \in [DataFields -> {"absent", "None", "value"}] :
        /\ cr_data' = data
        /\ IF \E f \in RequiredFields : ~InData(f, data)
           THEN /\ cr_posts' = <<>>
                /\ cr_result' = "OICValidationError"
           ELSE /\ cr_posts' = <<<<ConnectionsBasePath, data>>>>
                /\ cr_result' \in PostOutcomes
    /\ cr_pc' = "done"
    /\ UNCHANGED create_frame

NextCreate ==
    \/ ConnectionsCreate


-----------------------------------------------------------------------------
(* IntegrationWorkflows.find_integration_dependencies *)

\* A section of the payload: missing, or a list of items.
Missing == [present |-> FALSE, items |-> <<>>]
Present(items) == [present |-> TRUE, items |-> items]

\* An entry of references: <<type, id>>; the id "" is an entry without id.
RefTypes == {"CONNECTION", "LOOKUP", "LIBRARY"}
RefIds == {"a", "b", ""}

\* The payloads tried: references with up to MaxRefs entries, triggers and
\* invokes with at most one item, each section possibly missing.
Payloads ==
    [references : {Missing} \cup
                  {Present(refs) : refs \in SeqsUpTo(RefTypes \X RefIds, MaxRefs)},
     triggers : {Missing, Present(<<>>), Present(<<"a">>), Present(<<"b">>)},
     invokes : {Missing, Present(<<"a">>)}]

\* The loop over references for one kind: the id of every entry of the type
\* that has an id is appended, in order.
ReferencedIds(payload, type, include) ==
    IF ~payload.references.present \/ ~include THEN <<>>
    ELSE LET picked == SelectSeq(payload.references.items,
                                 LAMBDA ref : ref[1] = type /\ ref[2] # "")
         IN  [n \in 1..Len(picked) |-> picked[n][2]]

RECURSIVE AppendNew(_, _)
\* The loop over the items of a section: a connectionId is appended unless
\* the list already holds it.
AppendNew(connections, items) ==
    IF items = <<>> THEN connections
    ELSE LET conn_id == Head(items)
             seen == \E n \in 1..Len(connections) : connections[n] = conn_id
         IN  AppendNew(IF conn_id = "" \/ seen THEN connections
                       ELSE Append(connections, conn_id),
                       Tail(items))

Section(payload, section) ==
    IF payload[section].present THEN payload[section].items ELSE <<>>

\* A slip the loop over triggers and invokes could hold: the check "do we
\* already have this connection" is left out, as it is in the references loop.
DependenciesUnchecked(payload, include) ==
    [connections |-> ReferencedIds(payload, "CONNECTION", include[1]) \o
                     (IF include[1] THEN Section(payload, "triggers") \o
                                         Section(payload, "invokes") ELSE <<>>),
     lookups |-> ReferencedIds(payload, "LOOKUP", include[2]),
     libraries |-> ReferencedIds(payload, "LIBRARY", include[3])]

\* The three lists as the function builds them.  The elif chain gives a
\* type to the first kind that is included, and each entry has one type.
Dependencies(payload, include) ==
    [connections |->
        LET from_refs == ReferencedIds(payload, "CONNECTION", include[1])
        IN  IF include[1]
            THEN AppendNew(AppendNew(from_refs, Section(payload, "triggers")),
                           Section(payload, "invokes"))
            ELSE from_refs,
     lookups |-> ReferencedIds(payload, "LOOKUP", include[2]),
     libraries |-> ReferencedIds(payload, "LIBRARY", include[3])]

DepsIdle ==
    /\ dp_pc = "idle"
    /\ dp_payload = [references |-> Missing, triggers |-> Missing, invokes |-> Missing]
    /\ dp_include = <<TRUE, TRUE, TRUE>>
    /\ dp_deps = [connections |-> <<>>, lookups |-> <<>>, libraries |-> <<>>]
    /\ dp_result = DefaultResult

\* find_integration_dependencies(integration_id, ...) when the get answers.
FindDependencies ==
    /\ dp_pc = "idle"
    /\ \E payload \in Payloads, include \in BOOLEAN \X BOOLEAN \X BOOLEAN :
        /\ dp_payload' = payload
        /\ dp_include' = include
        /\ dp_deps' = Dependencies(payload, include)
    /\ dp_result' = DefaultResult
    /\ dp_pc' = "done"
    /\ UNCHANGED deps_frame

\* The same when the get raises an OICError: the early return.
FindDependenciesFails ==
    /\ dp_pc = "idle"
    /\ dp_include' \in BOOLEAN \X BOOLEAN \X BOOLEAN
    /\ dp_payload' = [references |-> Missing, triggers |-> Missing, invokes |-> Missing]
    /\ dp_deps' = [connections |-> <<>>, lookups |-> <<>>, libraries |-> <<>>]
    /\ dp_result' = add_error(DefaultResult, "Failed to get integration", "i")
    /\ dp_pc' = "done"
    /\ UNCHANGED deps_frame

NextDeps ==
    \/ FindDependencies
    \/ FindDependenciesFails

-----------------------------------------------------------------------------
\* backup_connections and the connections branch of restore_from_backup.

Identifiers == {"c1", "c2"}
ConnectionNames == {"n1", "n2"}
ConnectionTypes == {"REST", "SOAP"}

NoConnection ==
    [id |-> "", identifier |-> "", name |-> "", connectionType |-> "",
     lockedFlag |-> FALSE]

\* The connections the source instance can hold.
SourceConnections ==
    [id : {"s1"}, identifier : Identifiers, name : ConnectionNames,
     connectionType : ConnectionTypes, lockedFlag : {FALSE}]

\* The connection files a backup directory can hold; identifier "" stands
\* for a file without the key.
ConnectionFiles ==
    [id : {"s1"}, identifier : Identifiers \cup {""}, name : ConnectionNames,
     connectionType : ConnectionTypes, lockedFlag : {FALSE}]

TargetConnection(i) ==
    [id |-> i, identifier |-> i, name |-> "old", connectionType |-> "REST",
     lockedFlag |-> FALSE]

\* The states of the target instance: at most one connection per identifier.
Targets == {{TargetConnection(i) : i \in ids} : ids \in SUBSET Identifiers}

\* ConnectionsResource.get without raw: the payload is rebuilt as a series of
\* connection_id, the lock and user fields and the adapter fields; name and
\* connectionType are not among its keys.
GetStructured(data) ==
    [connection_id |-> data.id, is_locked |-> data.lockedFlag,
     adapter_type |-> "None"]

NoRead == [present |-> FALSE, data |-> GetStructured(NoConnection)]

\* The answers of the target instance.
ServerList(target, identifier) == {c \in target : c.identifier = identifier}

ServerUpdate(target, id, data) ==
    {IF c.id = id THEN [data EXCEPT !.id = id] ELSE c : c \in target}

ServerCreate(target, data) == target \cup {[data EXCEPT !.id = "new"]}

\* The calls the connections branch makes for one file.
RestoreCalls(data, target, overwrite) ==
    IF data.identifier = "" THEN <<"create">>
    ELSE IF ServerList(target, data.identifier) = {} THEN <<"list", "create">>
    ELSE IF overwrite THEN <<"list", "update">>
    ELSE <<"list">>

\* The target instance after the connections branch: a file without identifier
\* is refused by create (OICValidationError) before any request.
RestoreTarget(data, target, overwrite) ==
    IF data.identifier = "" THEN target
    ELSE LET existing_connections == ServerList(target, data.identifier)
         IN  IF existing_connections = {} THEN ServerCreate(target, data)
             ELSE IF overwrite
             THEN ServerUpdate(target,
                               (CHOOSE c \in existing_connections : TRUE).id,
                               data)
             ELSE target

TripIdle ==
    /\ rt_pc = "idle"
    /\ rt_trip = FALSE
    /\ rt_source = NoConnection
    /\ rt_file = [present |-> FALSE, data |-> NoConnection]
    /\ rt_before = {}
    /\ rt_target = {}
    /\ rt_overwrite = FALSE
    /\ rt_calls = <<>>
    /\ rt_end = "none"
    /\ rt_read = NoRead

\* backup_connections with one connection listed: connections.get gives the
\* series, then the path of the export file is built with _sanitize_filename,
\* whose re.sub raises NameError; were re bound, json.dump would refuse the
\* series with TypeError.  Neither is an OICError, so the call raises and no
\* connection file is written.
BackupConnection ==
    /\ rt_pc = "idle"
    /\ \E c \in SourceConnections : rt_source' = c
    /\ rt_trip' = TRUE
    /\ rt_end' = IF ~Resolves("re") THEN "NameError" ELSE "TypeError"
    /\ rt_pc' = "done"
    /\ UNCHANGED <<rt_file, rt_before, rt_target, rt_overwrite, rt_calls, rt_read>>
    /\ UNCHANGED trip_frame

\* restore_from_backup on a directory holding one connection file: the round
\* of the file begins with re.match, which raises NameError before the file
\* is opened; the connections branch follows it.
RestoreConnection ==
    /\ rt_pc = "idle"
    /\ \E data \in ConnectionFiles, target \in Targets, overwrite \in BOOLEAN :
        /\ rt_file' = [present |-> TRUE, data |-> data]
        /\ rt_before' = target
        /\ rt_overwrite' = overwrite
        /\ IF ~Resolves("re")
           THEN /\ rt_end' = "NameError"
                /\ rt_calls' = <<>>
                /\ rt_target' = target
           ELSE /\ rt_end' = "returned"
                /\ rt_calls' = RestoreCalls(data, target, overwrite)
                /\ rt_target' = RestoreTarget(data, target, overwrite)
    /\ rt_pc' = "restored"
    /\ UNCHANGED <<rt_trip, rt_source, rt_read>>
    /\ UNCHANGED trip_frame

\* connections.get(connection_id) on the target instance.
GetConnection ==
    /\ rt_pc = "restored"
    /\ \E id \in Identifiers \cup {"new"} :
        IF \E c \in rt_target : c.id = id
        THEN /\ rt_read' = [present |-> TRUE,
                            data |-> GetStructured(CHOOSE c \in rt_target : c.id = id)]
             /\ rt_end' = "returned"
        ELSE /\ rt_read' = NoRead
             /\ rt_end' = "OICResourceNotFoundError"
    /\ rt_pc' = "done"
    /\ UNCHANGED <<rt_trip, rt_source, rt_file, rt_before, rt_target,
                   rt_overwrite, rt_calls>>
    /\ UNCHANGED trip_frame

NextTrip ==
    \/ BackupConnection
    \/ RestoreConnection
    \/ GetConnection

-----------------------------------------------------------------------------
\* bulk_activate_integrations and bulk_deactivate_integrations, called with
\* integration_ids.

IntegrationIds == <<"i1", "i2", "i3">>

\* The status the handler is after.
BulkTarget(op) == IF op = "activate" THEN "ACTIVATED" ELSE "CONFIGURED"

\* A slip the skip test could hold: deactivation skips only what is read as
\* CONFIGURED, so an integration read as ERROR is sent a deactivate.
BulkSkippedConfigured(op, current_status) ==
    IF op = "activate" THEN current_status = "ACTIVATED"
    ELSE current_status = "CONFIGURED"

\* "Skip already activated integrations" / "Skip already deactivated
\* integrations": the test on the status the first get answered.
BulkSkipped(op, current_status) ==
    IF op = "activate" THEN current_status = "ACTIVATED"
    ELSE current_status # "ACTIVATED"

\* The test on the status read after the call: activation wants ACTIVATED,
\* deactivation anything but ACTIVATED.
BulkVerified(op, new_status) ==
    IF op = "activate" THEN new_status = "ACTIVATED"
    ELSE new_status # "ACTIVATED"

BulkIdle ==
    /\ bu_op = "activate"
    /\ bu_pc = "idle"
    /\ bu_ids = <<>>
    /\ bu_continue = TRUE
    /\ bu_verify = TRUE
    /\ bu_i = 1
    /\ bu_todo = <<>>
    /\ bu_ok = <<>>
    /\ bu_failed = <<>>
    /\ bu_log = <<>>
    /\ bu_result = DefaultResult

\* The handler is called with a list of ids.
BulkCall ==
    /\ bu_pc = "idle"
    /\ bu_op' \in {"activate", "deactivate"}
    /\ \E n \in 1..Min(MaxIntegrations, Len(IntegrationIds)) :
        bu_ids' = SubSeq(IntegrationIds, 1, n)
    /\ bu_continue' \in BOOLEAN
    /\ bu_verify' \in BOOLEAN
    /\ bu_pc' = "gather"
    /\ UNCHANGED <<bu_i, bu_todo, bu_ok, bu_failed, bu_log, bu_result>>
    /\ UNCHANGED bulk_frame

\* One round of "for integration_id in integration_ids": the get answers and
\* the integration is listed, or it raises OICError, which ends the handler
\* with an error when continue_on_error is false and is only logged otherwise.
BulkGet ==
    /\ bu_pc = "gather" /\ bu_i <= Len(bu_ids)
    /\ \E out \in ReadOutcomes :
        LET integration_id == bu_ids[bu_i] IN
        /\ bu_log' = Append(bu_log, Call("get", integration_id, out))
        /\ IF out # "OICError"
           THEN /\ bu_todo' = Append(bu_todo, [id |-> integration_id, status |-> out])
                /\ bu_i' = bu_i + 1
                /\ UNCHANGED <<bu_pc, bu_result>>
           ELSE IF ~bu_continue
           THEN /\ bu_result' = add_error(bu_result, "Failed to get integration",
                                          integration_id)
                /\ bu_pc' = "done"
                /\ UNCHANGED <<bu_todo, bu_i>>
           ELSE /\ bu_i' = bu_i + 1
                /\ UNCHANGED <<bu_pc, bu_todo, bu_result>>
    /\ UNCHANGED <<bu_op, bu_ids, bu_continue, bu_verify, bu_ok, bu_failed>>
    /\ UNCHANGED bulk_frame

\* After the ids: with nothing listed the handler returns ("No integrations
\* found"), otherwise the loop over the listed integrations begins.
BulkGathered ==
    /\ bu_pc = "gather" /\ bu_i > Len(bu_ids)
    /\ IF bu_todo = <<>>
       THEN /\ bu_result' = [bu_result EXCEPT !.message = <<"No integrations found">>]
            /\ bu_pc' = "done"
       ELSE /\ bu_result' = [bu_result EXCEPT
                !.details = MapPut(bu_result.details, "total_count", Len(bu_todo))]
            /\ bu_pc' = "process"
    /\ bu_i' = 1
    /\ UNCHANGED <<bu_op, bu_ids, bu_continue, bu_verify, bu_todo, bu_ok,
                   bu_failed, bu_log>>
    /\ UNCHANGED bulk_frame

\* The end of one round of the loop over the listed integrations: the id goes
\* to the successful or to the failed list, a failure is an add_error, the
\* resource entry is written, and a failure without continue_on_error breaks.
BulkRecord(log, integration_id, ok, data, message) ==
    /\ bu_log' = log
    /\ bu_result' = add_resource(
            IF ok THEN bu_result ELSE add_error(bu_result, message, integration_id),
            "integration", integration_id, data)
    /\ bu_ok' = IF ok THEN Append(bu_ok, integration_id) ELSE bu_ok
    /\ bu_failed' = IF ok THEN bu_failed ELSE Append(bu_failed, integration_id)
    /\ IF ~ok /\ ~bu_continue
       THEN bu_pc' = "finish" /\ bu_i' = bu_i
       ELSE bu_pc' = bu_pc /\ bu_i' = bu_i + 1
    /\ UNCHANGED <<bu_op, bu_ids, bu_continue, bu_verify, bu_todo>>

\* One round of the loop over the listed integrations.
BulkStep ==
    /\ bu_pc = "process" /\ bu_i <= Len(bu_todo)
    /\ LET integration_id == bu_todo[bu_i].id
           current_status == bu_todo[bu_i].status
           done == [status |-> BulkTarget(bu_op), result |-> "success"]
       IN  IF BulkSkipped(bu_op, current_status)
           THEN BulkRecord(bu_log, integration_id, TRUE,
                           [status |-> current_status, result |-> "already"], "")
           ELSE \/ BulkRecord(Append(bu_log, Call(bu_op, integration_id, "OICError")),
                              integration_id, FALSE, [result |-> "error"],
                              "Failed to activate or deactivate integration")
                \/ /\ ~bu_verify
                   /\ BulkRecord(Append(bu_log, Call(bu_op, integration_id, "ok")),
                                 integration_id, TRUE, done, "")
                \/ /\ bu_verify
                   /\ \E out \in ReadOutcomes :
                       LET log == bu_log \o <<Call(bu_op, integration_id, "ok"),
                                              Call("get", integration_id, out)>>
                       IN  IF out # "OICError" /\ BulkVerified(bu_op, out)
                           THEN BulkRecord(log, integration_id, TRUE, done, "")
                           ELSE BulkRecord(log, integration_id, FALSE,
                                           [result |-> "verification_failed"],
                                           "Verification failed")
    /\ UNCHANGED bulk_frame

\* "Update overall workflow status": success is cleared when the failed list
\* is not empty, the counts go to details, the result is returned.
BulkReturn ==
    /\ \/ bu_pc = "finish"
       \/ bu_pc = "process" /\ bu_i > Len(bu_todo)
    /\ bu_result' = [bu_result EXCEPT
            !.success = IF bu_failed # <<>> THEN FALSE ELSE @,
            !.details = MapPut(MapPut(@, "successful_count", Len(bu_ok)),
                               "failed_count", Len(bu_failed))]
    /\ bu_pc' = "done"
    /\ UNCHANGED <<bu_op, bu_ids, bu_continue, bu_verify, bu_i, bu_todo, bu_ok,
                   bu_failed, bu_log>>
    /\ UNCHANGED bulk_frame

NextBulk ==
    \/ BulkCall
    \/ BulkGet
    \/ BulkGathered
    \/ BulkStep
    \/ BulkReturn

-----------------------------------------------------------------------------
\* The import methods of the integrations, lookups, libraries and packages
\* resources: one multipart POST made with client.request.

ImportKinds == {"integrations", "lookups", "libraries", "packages"}

\* "except Exception as e: raise OICAPIError(f'Failed to import ...: {e}')"
\* around the request: whatever request() raised leaves as an OICAPIError
\* built from the message alone, so without status code.
ImportOutcome(raised) ==
    IF raised.exc = "ok" THEN raised
    ELSE [exc |-> "OICAPIError", code |-> NoStatus]

ImportIdle ==
    /\ im_pc = "idle"
    /\ im_kind = "integrations"
    /\ im_sent = FALSE
    /\ im_status = NoStatus
    /\ im_body = "empty"
    /\ im_result = "none"
    /\ im_code = NoStatus

\* The file is not there: OICValidationError, raised before the try block.
ImportFileMissing ==
    /\ im_kind' \in ImportKinds
    /\ im_sent' = FALSE
    /\ im_status' = NoStatus
    /\ im_body' = "empty"
    /\ im_result' = "OICValidationError"
    /\ im_code' = NoStatus
    /\ im_pc' = "done"
    /\ UNCHANGED import_frame

\* The file is there: the upload is requested and answered with a status
\* that request() does not retry.
ImportUpload ==
    /\ im_kind' \in ImportKinds
    /\ im_sent' = TRUE
    /\ \E status \in Statuses, body \in BodyKinds :
        /\ im_status' = status
        /\ im_body' = body
        /\ im_result' = ImportOutcome(HandleResponse(status, body)).exc
        /\ im_code' = ImportOutcome(HandleResponse(status, body)).code
    /\ im_pc' = "done"
    /\ UNCHANGED import_frame

NextImport ==
    \/ ImportFileMissing
    \/ ImportUpload

-----------------------------------------------------------------------------
\* request() run by several workers on one client: the steps of one worker
\* between which another worker can run.

Workers == 1..MaxWorkers

SharedIdle ==
    /\ cc_token = 1
    /\ cc_issued = 1
    /\ cc_valid_from = 1
    /\ cc_exchanges = 0
    /\ cc_storm = {}
    /\ cc_pc = [w \in Workers |-> "idle"]
    /\ cc_retry = [w \in Workers |-> TRUE]
    /\ cc_header = [w \in Workers |-> NoToken]
    /\ cc_status = [w \in Workers |-> NoStatus]

\* The token endpoint's side: the tokens issued so far expire.
TokensExpire ==
    /\ cc_exchanges = 0 /\ cc_valid_from = 1
    /\ cc_valid_from' = cc_issued + 1
    /\ UNCHANGED <<cc_token, cc_issued, cc_exchanges, cc_storm, cc_pc, cc_retry,
                   cc_header, cc_status>>
    /\ UNCHANGED shared_frame

\* A worker enters request() through get/post/put/delete.
WorkerRequest ==
    /\ \E w \in Workers :
        /\ cc_pc[w] = "idle"
        /\ cc_pc' = [cc_pc EXCEPT ![w] = "prepare"]
        /\ UNCHANGED <<cc_token, cc_issued, cc_valid_from, cc_exchanges, cc_storm,
                       cc_retry, cc_header, cc_status>>
    /\ UNCHANGED shared_frame

\* get_auth_token: "if not self._auth_token" sends the worker to
\* authenticate(), otherwise the token held is its header.
WorkerPrepare ==
    /\ \E w \in Workers :
        /\ cc_pc[w] = "prepare"
        /\ IF cc_token = NoToken
           THEN /\ cc_pc' = [cc_pc EXCEPT ![w] = "auth"]
                /\ UNCHANGED cc_header
           ELSE /\ cc_pc' = [cc_pc EXCEPT ![w] = "send"]
                /\ cc_header' = [cc_header EXCEPT ![w] = cc_token]
        /\ UNCHANGED <<cc_token, cc_issued, cc_valid_from, cc_exchanges, cc_storm,
                       cc_retry, cc_status>>
    /\ UNCHANGED shared_frame

\* authenticate(): the POST to the token endpoint answers with a new token,
\* which is stored; what get_auth_token passes on is authenticate's return.
WorkerAuthenticate ==
    /\ \E w \in Workers :
        /\ cc_pc[w] = "auth"
        /\ cc_issued' = cc_issued + 1
        /\ cc_token' = cc_issued + 1
        /\ cc_exchanges' = cc_exchanges + 1
        /\ cc_header' = [cc_header EXCEPT ![w] = AuthenticateReturn(cc_issued + 1)]
        /\ cc_pc' = [cc_pc EXCEPT ![w] = "send"]
        /\ UNCHANGED <<cc_valid_from, cc_storm, cc_retry, cc_status>>
    /\ UNCHANGED shared_frame

\* session.request: the server answers 401 to a header without a valid token.
WorkerSend ==
    /\ \E w \in Workers :
        /\ cc_pc[w] = "send"
        /\ LET status == IF cc_header[w] = NoToken \/ cc_header[w] < cc_valid_from
                         THEN 401 ELSE 200
           IN  /\ cc_status' = [cc_status EXCEPT ![w] = status]
               /\ cc_pc' = [cc_pc EXCEPT ![w] =
                      IF status = 401 /\ cc_retry[w] THEN "unauthorized" ELSE "done"]
               /\ cc_storm' = IF status = 401 /\ cc_retry[w] /\ cc_exchanges = 0
                              THEN cc_storm \cup {w} ELSE cc_storm
        /\ UNCHANGED <<cc_token, cc_issued, cc_valid_from, cc_exchanges, cc_retry,
                       cc_header>>
    /\ UNCHANGED shared_frame

\* "self._auth_token = None" and the recursive call with retry_auth=False.
WorkerClears ==
    /\ \E w \in Workers :
        /\ cc_pc[w] = "unauthorized"
        /\ cc_token' = NoToken
        /\ cc_retry' = [cc_retry EXCEPT ![w] = FALSE]
        /\ cc_pc' = [cc_pc EXCEPT ![w] = "prepare"]
        /\ UNCHANGED <<cc_issued, cc_valid_from, cc_exchanges, cc_storm, cc_header,
                       cc_status>>
    /\ UNCHANGED shared_frame

NextShared ==
    \/ TokensExpire
    \/ WorkerRequest
    \/ WorkerPrepare
    \/ WorkerAuthenticate
    \/ WorkerSend
    \/ WorkerClears

-----------------------------------------------------------------------------
\* BaseWorkflow.execute_safely

\* Results a caller may hold, or an operation may return: successful or
\* failed, with or without a message, a resource and an error.
HeldResults ==
    {r \in {[success |-> s, message |-> m, details |-> EmptyMap,
             resources |-> rs, errors |-> es] :
                s \in BOOLEAN, m \in {<<>>, <<"m">>},
                rs \in {EmptyMap, [t \in {"integrations"} |-> [i \in {"r1"} |-> "d1"]]},
                es \in {<<>>, <<ErrorInfo("e1", "")>>}} :
        r.errors # <<>> => ~r.success}

\* What the wrapped operation does: it returns a WorkflowResult, a dict,
\* something else, or raises an OICError or another Exception.
OperationOutcomes ==
    [kind : {"WorkflowResult"}, result : HeldResults, dict : {EmptyMap}]
    \cup [kind : {"dict"}, result : {DefaultResult},
          dict : {EmptyMap, [k \in {"attempts"} |-> 1]}]
    \cup [kind : {"other", "OICError", "Exception"}, result : {DefaultResult},
          dict : {EmptyMap}]

\* A slip the handler could hold: only OICError is caught, anything else
\* leaves the call as it came.
execute_safely_oic_only(result, outcome, resource_id) ==
    IF outcome.kind = "WorkflowResult"
    THEN [raised |-> FALSE, result |-> merge(result, outcome.result)]
    ELSE IF outcome.kind = "dict"
    THEN [raised |-> FALSE,
          result |-> [result EXCEPT !.details = MapUpdate(@, outcome.dict)]]
    ELSE IF outcome.kind = "OICError"
    THEN [raised |-> FALSE,
          result |-> add_error(result, "error_message", resource_id)]
    ELSE [raised |-> outcome.kind = "Exception", result |-> result]

\* execute_safely(operation, error_message, resource_id, result): whether it
\* raised and the result it returned.
execute_safely(result, outcome, resource_id) ==
    IF outcome.kind = "WorkflowResult"
    THEN [raised |-> FALSE, result |-> merge(result, outcome.result)]
    ELSE IF outcome.kind = "dict"
    THEN [raised |-> FALSE,
          result |-> [result EXCEPT !.details = MapUpdate(@, outcome.dict)]]
    ELSE IF outcome.kind = "OICError"
    THEN [raised |-> FALSE,
          result |-> add_error(result, "error_message", resource_id)]
    ELSE IF outcome.kind = "Exception"
    THEN [raised |-> FALSE,
          result |-> add_error(result, "Unexpected error during error_message",
                               resource_id)]
    ELSE [raised |-> FALSE, result |-> result]

SafelyIdle ==
    /\ es_pc = "idle"
    /\ es_before = DefaultResult
    /\ es_outcome = [kind |-> "other", result |-> DefaultResult, dict |-> EmptyMap]
    /\ es_resource_id = ""
    /\ es_raised = FALSE
    /\ es_result = DefaultResult

\* One call of execute_safely.
ExecuteSafely ==
    /\ es_pc = "idle"
    /\ \E result \in HeldResults, outcome \in OperationOutcomes,
          resource_id \in {"", "r1"} :
        /\ es_before' = result
        /\ es_outcome' = outcome
        /\ es_resource_id' = resource_id
        /\ es_raised' = execute_safely(result, outcome, resource_id).raised
        /\ es_result' = execute_safely(result, outcome, resource_id).result
    /\ es_pc' = "done"
    /\ UNCHANGED safely_frame

\* The caller goes on to its next call.
SafelyNext ==
    /\ es_pc = "done"
    /\ es_pc' = "idle"
    /\ UNCHANGED <<es_before, es_outcome, es_resource_id, es_raised, es_result>>
    /\ UNCHANGED safely_frame

NextSafely ==
    \/ ExecuteSafely
    \/ SafelyNext

-----------------------------------------------------------------------------
\* IntegrationsResource.export and DeploymentWorkflows.promote_integration

\* export_file_path of promote_integration inside its temporary directory.
ExportFilePath(integration_id) == "integration_" \o integration_id \o ".iar"

\* IntegrationsResource.export: the path the archive is written to and
\* returned, zip_file_path = file_path + '.zip'.
ExportWrites(file_path) == file_path \o ".zip"

\* How export_integration may come out: the get raises OICError, the export
\* call raises OICError, or the archive is written.
ExportOutcomes == {"get_failed", "export_failed", "exported"}

PromoteIdle ==
    /\ pm_pc = "idle"
    /\ pm_id = "i1"
    /\ pm_activate = FALSE
    /\ pm_map = FALSE
    /\ pm_deps = FALSE
    /\ pm_temp = FALSE
    /\ pm_files = {}
    /\ pm_export_path = ""
    /\ pm_exported = FALSE
    /\ pm_import_path = ""
    /\ pm_found = FALSE
    /\ pm_end = "none"
    /\ pm_result = DefaultResult

\* promote_integration is called: mkdtemp, then step 1, export_integration
\* with export_file_path; a failed export result is merged and returned.
PromoteExport ==
    /\ pm_pc = "idle"
    /\ \E id \in {IntegrationIds[n] : n \in DOMAIN IntegrationIds},
          outcome \in ExportOutcomes :
        LET export_file_path == ExportFilePath(id)
            export_result ==
                IF outcome = "exported"
                THEN add_resource(DefaultResult, "integration", id, "name")
                ELSE add_error(DefaultResult,
                               IF outcome = "get_failed"
                               THEN "Failed to get integration"
                               ELSE "Failed to export integration", id)
        IN  /\ pm_id' = id
            /\ pm_export_path' = export_file_path
            /\ pm_files' = IF outcome = "exported"
                           THEN {ExportWrites(export_file_path)} ELSE {}
            /\ pm_exported' = export_result.success
            /\ IF ~export_result.success
               THEN /\ pm_result' = merge([DefaultResult EXCEPT !.success = FALSE],
                                          export_result)
                    /\ pm_end' = "export_failed"
                    /\ pm_pc' = "done"
               ELSE /\ pm_result' = DefaultResult
                    /\ pm_end' = "none"
                    /\ pm_pc' = "import"
    /\ pm_activate' \in BOOLEAN
    /\ pm_map' \in BOOLEAN
    /\ pm_deps' \in BOOLEAN
    /\ pm_temp' = TRUE
    /\ pm_import_path' = ""
    /\ pm_found' = FALSE
    /\ UNCHANGED promote_frame

\* "Clean up temporary files": shutil.rmtree(temp_dir) before the last return.
PromoteCleanup(end, result) ==
    /\ pm_temp' = FALSE
    /\ pm_files' = {}
    /\ pm_end' = end
    /\ pm_result' = result

\* An early return inside steps 3 and 4: nothing is removed.
PromoteReturns(end, result) ==
    /\ pm_end' = end
    /\ pm_result' = result
    /\ UNCHANGED <<pm_temp, pm_files>>

\* Steps 3 and 4 and the end of the call: import_integration is given
\* export_file_path and returns a failed result when no file is there;
\* otherwise the upload, the optional activation and the clean up follow.
\* Any exception of these steps ends the call in the outer except clause.
PromoteImport ==
    /\ pm_pc = "import"
    /\ pm_import_path' = pm_export_path
    /\ pm_found' = (pm_export_path \in pm_files)
    /\ \/ PromoteReturns("exception",
                         add_error(pm_result, "Failed to promote integration", ""))
       \/ IF pm_export_path \notin pm_files
          THEN PromoteReturns("import_failed",
                   merge([pm_result EXCEPT !.success = FALSE],
                         add_error(DefaultResult, "Import file does not exist", "")))
          ELSE \/ PromoteReturns("import_failed",
                      merge([pm_result EXCEPT !.success = FALSE],
                            add_error(DefaultResult, "Failed to import integration", "")))
               \/ /\ pm_activate
                  /\ PromoteCleanup("activation_failed",
                         add_error(pm_result, "Failed to activate integration", pm_id))
               \/ PromoteCleanup("success", pm_result)
    /\ pm_pc' = "done"
    /\ UNCHANGED <<pm_id, pm_activate, pm_map, pm_deps, pm_export_path, pm_exported>>
    /\ UNCHANGED promote_frame

NextPromote ==
    \/ PromoteExport
    \/ PromoteImport

-----------------------------------------------------------------------------
\* DeploymentWorkflows.clone_environment

\* resource_types, the default.
CloneKinds == <<"connections", "lookups", "libraries", "integrations">>

\* export_func of a kind, when no request fails: the path a file is written
\* to.  _export_connection_as_json hands the series of connections.get to
\* json.dump, which raises TypeError: no file ("").
CloneExportWrites(kind, export_path) ==
    IF kind = "connections" THEN ""
    ELSE IF kind = "integrations" THEN ExportWrites(export_path)
    ELSE export_path

\* What one resource comes to: the export fails, or the import fails, or
\* both succeed and an activation, if made, succeeds or fails.
CloneOutcomes(kind, activate) ==
    LET export_path == "resource"
        written == CloneExportWrites(kind, export_path)
    IN  {"export_failed"} \cup
        (IF written = "" THEN {}
         ELSE IF written # export_path THEN {"import_failed"}
         ELSE {"import_failed"} \cup
              (IF kind = "integrations" /\ activate
               THEN {"activated", "activation_failed"} ELSE {"imported"}))

CloneIdle ==
    /\ cl_pc = "idle"
    /\ cl_activate = FALSE
    /\ cl_kind = 1
    /\ cl_left = 0
    /\ cl_exported = 0
    /\ cl_imported = 0
    /\ cl_failed = 0
    /\ cl_activated = 0
    /\ cl_attempt_failed = FALSE
    /\ cl_result = DefaultResult

\* clone_environment(target_client, ..., activate_integrations) is called.
CloneCall ==
    /\ cl_pc = "idle"
    /\ cl_activate' \in BOOLEAN
    /\ cl_pc' = "list"
    /\ UNCHANGED <<cl_kind, cl_left, cl_exported, cl_imported, cl_failed,
                   cl_activated, cl_attempt_failed, cl_result>>
    /\ UNCHANGED clone_frame

\* The list call of a kind: an OICError is an add_error and the next kind.
CloneList ==
    /\ cl_pc = "list" /\ cl_kind <= Len(CloneKinds)
    /\ \/ /\ cl_result' = add_error(cl_result, "Failed to get list", "")
          /\ cl_kind' = cl_kind + 1
          /\ UNCHANGED <<cl_pc, cl_left>>
       \/ \E n \in 0..MaxResources :
          /\ cl_left' = n
          /\ cl_kind' = IF n = 0 THEN cl_kind + 1 ELSE cl_kind
          /\ cl_pc' = IF n = 0 THEN "list" ELSE "items"
          /\ UNCHANGED cl_result
    /\ UNCHANGED <<cl_activate, cl_exported, cl_imported, cl_failed, cl_activated,
                   cl_attempt_failed>>
    /\ UNCHANGED clone_frame

\* One round of "for resource in resources": export, import, activation.
CloneResource ==
    /\ cl_pc = "items" /\ cl_left > 0
    /\ \E outcome \in CloneOutcomes(CloneKinds[cl_kind], cl_activate) :
        /\ cl_exported' = IF outcome = "export_failed" THEN cl_exported
                          ELSE cl_exported + 1
        /\ cl_imported' = IF outcome \in {"export_failed", "import_failed"}
                          THEN cl_imported ELSE cl_imported + 1
        /\ cl_failed' = IF outcome \in {"export_failed", "import_failed"}
                        THEN cl_failed + 1 ELSE cl_failed
        /\ cl_activated' = IF outcome = "activated" THEN cl_activated + 1
                           ELSE cl_activated
        /\ cl_attempt_failed' =
              (cl_attempt_failed \/
               outcome \in {"export_failed", "import_failed", "activation_failed"})
    /\ cl_left' = cl_left - 1
    /\ cl_kind' = IF cl_left = 1 THEN cl_kind + 1 ELSE cl_kind
    /\ cl_pc' = IF cl_left = 1 THEN "list" ELSE "items"
    /\ UNCHANGED <<cl_activate, cl_result>>
    /\ UNCHANGED clone_frame

\* After the kinds: the message parts are those of the kinds with exported >
\* 0; with a part and a failure success is cleared, without any part the
\* message is "No resources were cloned".
CloneReturn ==
    /\ cl_pc = "list" /\ cl_kind > Len(CloneKinds)
    /\ cl_result' = IF cl_exported > 0 /\ cl_failed # 0
                    THEN [cl_result EXCEPT !.success = FALSE]
                    ELSE cl_result
    /\ cl_pc' = "done"
    /\ UNCHANGED <<cl_activate, cl_kind, cl_left, cl_exported, cl_imported,
                   cl_failed, cl_activated, cl_attempt_failed>>
    /\ UNCHANGED clone_frame

NextClone ==
    \/ CloneCall
    \/ CloneList
    \/ CloneResource
    \/ CloneReturn

InitClient == ClientInit /\ ListIdle /\ ResultIdle /\ MergeIdle /\ ExecuteIdle /\ BackupIdle /\ PruneIdle /\ WaitIdle /\ RestartIdle /\ CreateIdle /\ DepsIdle /\ TripIdle /\ BulkIdle /\ ImportIdle /\ SharedIdle /\ SafelyIdle /\ PromoteIdle /\ CloneIdle

InitList == ClientInit /\ ListIdle /\ ResultIdle /\ MergeIdle /\ ExecuteIdle /\ BackupIdle /\ PruneIdle /\ WaitIdle /\ RestartIdle /\ CreateIdle /\ DepsIdle /\ TripIdle /\ BulkIdle /\ ImportIdle /\ SharedIdle /\ SafelyIdle /\ PromoteIdle /\ CloneIdle

InitResult == ClientInit /\ ListIdle /\ ResultIdle /\ MergeIdle /\ ExecuteIdle /\ BackupIdle /\ PruneIdle /\ WaitIdle /\ RestartIdle /\ CreateIdle /\ DepsIdle /\ TripIdle /\ BulkIdle /\ ImportIdle /\ SharedIdle /\ SafelyIdle /\ PromoteIdle /\ CloneIdle

InitExecute == ClientInit /\ ListIdle /\ ResultIdle /\ MergeIdle /\ ExecuteIdle /\ BackupIdle /\ PruneIdle /\ WaitIdle /\ RestartIdle /\ CreateIdle /\ DepsIdle /\ TripIdle /\ BulkIdle /\ ImportIdle /\ SharedIdle /\ SafelyIdle /\ PromoteIdle /\ CloneIdle

InitBackup == ClientInit /\ ListIdle /\ ResultIdle /\ MergeIdle /\ ExecuteIdle /\ BackupIdle /\ PruneIdle /\ WaitIdle /\ RestartIdle /\ CreateIdle /\ DepsIdle /\ TripIdle /\ BulkIdle /\ ImportIdle /\ SharedIdle /\ SafelyIdle /\ PromoteIdle /\ CloneIdle

InitPrune == ClientInit /\ ListIdle /\ ResultIdle /\ MergeIdle /\ ExecuteIdle /\ BackupIdle /\ PruneInit /\ WaitIdle /\ RestartIdle /\ CreateIdle /\ DepsIdle /\ TripIdle /\ BulkIdle /\ ImportIdle /\ SharedIdle /\ SafelyIdle /\ PromoteIdle /\ CloneIdle

InitWait == ClientInit /\ ListIdle /\ ResultIdle /\ MergeIdle /\ ExecuteIdle /\ BackupIdle /\ PruneIdle /\ WaitIdle /\ RestartIdle /\ CreateIdle /\ DepsIdle /\ TripIdle /\ BulkIdle /\ ImportIdle /\ SharedIdle /\ SafelyIdle /\ PromoteIdle /\ CloneIdle

InitRestart == ClientInit /\ ListIdle /\ ResultIdle /\ MergeIdle /\ ExecuteIdle /\ BackupIdle /\ PruneIdle /\ WaitIdle /\ RestartIdle /\ CreateIdle /\ DepsIdle /\ TripIdle /\ BulkIdle /\ ImportIdle /\ SharedIdle /\ SafelyIdle /\ PromoteIdle /\ CloneIdle

InitCreate == ClientInit /\ ListIdle /\ ResultIdle /\ MergeIdle /\ ExecuteIdle /\ BackupIdle /\ PruneIdle /\ WaitIdle /\ RestartIdle /\ CreateIdle /\ DepsIdle /\ TripIdle /\ BulkIdle /\ ImportIdle /\ SharedIdle /\ SafelyIdle /\ PromoteIdle /\ CloneIdle

InitDeps == ClientInit /\ ListIdle /\ ResultIdle /\ MergeIdle /\ ExecuteIdle /\ BackupIdle /\ PruneIdle /\ WaitIdle /\ RestartIdle /\ CreateIdle /\ DepsIdle /\ TripIdle /\ BulkIdle /\ ImportIdle /\ SharedIdle /\ SafelyIdle /\ PromoteIdle /\ CloneIdle

InitTrip == ClientInit /\ ListIdle /\ ResultIdle /\ MergeIdle /\ ExecuteIdle /\ BackupIdle /\ PruneIdle /\ WaitIdle /\ RestartIdle /\ CreateIdle /\ DepsIdle /\ TripIdle /\ BulkIdle /\ ImportIdle /\ SharedIdle /\ SafelyIdle /\ PromoteIdle /\ CloneIdle

InitBulk == ClientInit /\ ListIdle /\ ResultIdle /\ MergeIdle /\ ExecuteIdle /\ BackupIdle /\ PruneIdle /\ WaitIdle /\ RestartIdle /\ CreateIdle /\ DepsIdle /\ TripIdle /\ BulkIdle /\ ImportIdle /\ SharedIdle /\ SafelyIdle /\ PromoteIdle /\ CloneIdle

InitImport == ClientInit /\ ListIdle /\ ResultIdle /\ MergeIdle /\ ExecuteIdle /\ BackupIdle /\ PruneIdle /\ WaitIdle /\ RestartIdle /\ CreateIdle /\ DepsIdle /\ TripIdle /\ BulkIdle /\ ImportIdle /\ SharedIdle /\ SafelyIdle /\ PromoteIdle /\ CloneIdle

InitShared == ClientInit /\ ListIdle /\ ResultIdle /\ MergeIdle /\ ExecuteIdle /\ BackupIdle /\ PruneIdle /\ WaitIdle /\ RestartIdle /\ CreateIdle /\ DepsIdle /\ TripIdle /\ BulkIdle /\ ImportIdle /\ SharedIdle /\ SafelyIdle /\ PromoteIdle /\ CloneIdle

InitSafely == ClientInit /\ ListIdle /\ ResultIdle /\ MergeIdle /\ ExecuteIdle /\ BackupIdle /\ PruneIdle /\ WaitIdle /\ RestartIdle /\ CreateIdle /\ DepsIdle /\ TripIdle /\ BulkIdle /\ ImportIdle /\ SharedIdle /\ SafelyIdle /\ PromoteIdle /\ CloneIdle

InitPromote == ClientInit /\ ListIdle /\ ResultIdle /\ MergeIdle /\ ExecuteIdle /\ BackupIdle /\ PruneIdle /\ WaitIdle /\ RestartIdle /\ CreateIdle /\ DepsIdle /\ TripIdle /\ BulkIdle /\ ImportIdle /\ SharedIdle /\ SafelyIdle /\ PromoteIdle /\ CloneIdle

InitClone == ClientInit /\ ListIdle /\ ResultIdle /\ MergeIdle /\ ExecuteIdle /\ BackupIdle /\ PruneIdle /\ WaitIdle /\ RestartIdle /\ CreateIdle /\ DepsIdle /\ TripIdle /\ BulkIdle /\ ImportIdle /\ SharedIdle /\ SafelyIdle /\ PromoteIdle /\ CloneIdle

InitMerge == ClientInit /\ ListIdle /\ ResultIdle /\ MergeInit /\ ExecuteIdle /\ BackupIdle /\ PruneIdle /\ WaitIdle /\ RestartIdle /\ CreateIdle /\ DepsIdle /\ TripIdle /\ BulkIdle /\ ImportIdle /\ SharedIdle /\ SafelyIdle /\ PromoteIdle /\ CloneIdle

SpecClient == InitClient /\ [][NextClient]_vars

SpecList == InitList /\ [][NextList]_vars

SpecResult == InitResult /\ [][NextResult]_vars

SpecMerge == InitMerge /\ [][NextMerge]_vars

SpecExecute == InitExecute /\ [][NextExecute]_vars

SpecBackup == InitBackup /\ [][NextBackup]_vars

SpecPrune == InitPrune /\ [][NextPrune]_vars

SpecWait == InitWait /\ [][NextWait]_vars

SpecRestart == InitRestart /\ [][NextRestart]_vars

SpecCreate == InitCreate /\ [][NextCreate]_vars

SpecDeps == InitDeps /\ [][NextDeps]_vars

SpecTrip == InitTrip /\ [][NextTrip]_vars

SpecBulk == InitBulk /\ [][NextBulk]_vars

SpecImport == InitImport /\ [][NextImport]_vars

SpecShared == InitShared /\ [][NextShared]_vars

SpecSafely == InitSafely /\ [][NextSafely]_vars

SpecPromote == InitPromote /\ [][NextPromote]_vars

SpecClone == InitClone /\ [][NextClone]_vars

\* All machines side by side.
Init == InitMerge

Next == NextClient \/ NextList \/ NextResult \/ NextMerge \/ NextExecute \/ NextBackup \/ NextPrune \/ NextWait \/ NextRestart \/ NextCreate \/ NextDeps \/ NextTrip \/ NextBulk \/ NextImport \/ NextShared \/ NextSafely \/ NextPromote \/ NextClone

Spec == Init /\ [][Next]_vars

-----------------------------------------------------------------------------
(* Claims about OICClient.request, checked under SpecClient *)

\* C1: a single call to request sends at most two HTTP requests to the API; a
\* second one is sent only if the first response had status 401, and whatever
\* the second response is, no third request is sent.
C1_AtMostTwoRequests ==
    /\ rq_sent <= 2
    /\ rq_sent = 2 => (Len(rq_statuses) >= 1 /\ rq_statuses[1] = 401)

\* A call that has ended after a 401 on the first and a 401 on the retried request.
C1_Witness ==
    /\ rq_pc = "idle"
    /\ rq_sent = 2
    /\ rq_statuses = <<401, 401>>

\* C2: when the retried request also receives status 401, request fails with
\* OICAuthenticationError and with no other error type.
C2_SecondUnauthorizedIsAuthError ==
    (/\ rq_pc = "idle"
     /\ rq_sent = 2
     /\ Len(rq_statuses) = 2
     /\ rq_statuses[2] = 401) => rq_result = "OICAuthenticationError"

\* C3: after a 401 triggered a token exchange that succeeded, the retried
\* request carries the newly obtained token as its Bearer value (never a stale
\* or null one), and so does every later request until the next 401.
C3_RetryCarriesFreshToken ==
    /\ (/\ Len(rq_statuses) >= 1
        /\ rq_statuses[1] = 401
        /\ rq_fresh # NoToken
        /\ Len(rq_headers) >= 2) => rq_headers[2] = rq_fresh
    /\ (/\ rq_pc = "send"
        /\ rq_sent = 0
        /\ rq_auths = 0
        /\ rq_since # NoToken) => rq_header = rq_since

\* C4: within one request call the token exchange is performed at most once,
\* and only after a response of that call had status 401.
C4_AtMostOneExchange ==
    /\ rq_auths <= 1
    /\ rq_auths >= 1 => \E i \in 1..Len(rq_statuses) : rq_statuses[i] = 401

\* C5: for the final response of a request: 404 raises
\* OICResourceNotFoundError; any other status >= 400 except 401 raises
\* OICAPIError whose status_code is the response status; a status below 400
\* never raises.
C5_FinalStatusMapping ==
    (rq_pc = "idle" /\ rq_final[1] # NoStatus) =>
        LET status == rq_final[1] IN
        /\ status = 404 => rq_result = "OICResourceNotFoundError"
        /\ (status >= 400 /\ status # 404 /\ status # 401) =>
               (rq_result = "OICAPIError" /\ rq_code = status)
        /\ status < 400 => rq_result = "ok"

-----------------------------------------------------------------------------
(* Claims about list_all, checked under SpecList *)

IsPrefix(s, t) == Len(s) <= Len(t) /\ \A i \in 1..Len(s) : s[i] = t[i]

\* C6: list_all stops after a bounded number of list calls even when the server
\* answers every page with hasMore=true, and the accumulated list then holds at
\* most the reported total number of items.
C6_BoundedListing ==
    srv_more = "always" =>
        /\ la_calls <= ListCeiling
        /\ la_result = "returned" => Len(output) <= srv_total

\* C7: against a server that holds a fixed collection, honours offset, reports
\* its page size and says hasMore=false only on the last page, the accumulated
\* result only grows along the collection (no gap, no duplicate) and the
\* returned list is the whole collection in server order.
C7_HonestListingComplete ==
    (srv_more = "honest" /\ srv_limit /\ ~srv_faulty) =>
        /\ IsPrefix(output, AllItems)
        /\ la_result = "returned" => output = AllItems

\* C8: a 400 answer to a page request in the middle of a list_all sequence
\* makes list_all stop and return the items accumulated so far; the error is
\* not propagated.
C8_ErrorMidSequenceReturnsPartial ==
    (la_pc = "done" /\ la_last = 400 /\ la_calls >= 2) => la_result = "returned"

-----------------------------------------------------------------------------
(* Claims about WorkflowResult, checked under SpecResult and SpecMerge *)

\* C9: in every WorkflowResult built from a default-constructed one by
\* add_error, add_resource, merge and the handlers' direct assignments, a
\* non-empty errors list implies success = False.
C9_ErrorsImplyFailure ==
    \A r \in ResultNames :
        results[r].errors # <<>> => results[r].success = FALSE

\* A result that holds resources and two errors, beside another one that
\* holds an error too.
C9_Witness ==
    /\ Len(results["result"].errors) = 2
    /\ results["result"].resources # EmptyMap
    /\ results["other"].errors # <<>>

\* C10: merge is associative: merge(merge(a,b),c) and merge(a,merge(b,c)) have
\* the same success flag, the same errors in the same order and the same
\* resources map.
C10_MergeAssociative ==
    m_pc = "done" =>
        /\ m_left.success = m_right.success
        /\ m_left.errors = m_right.errors
        /\ m_left.resources = m_right.resources

\* Both sides are computed for a failed a and a failed b with different
\* errors, a successful c that holds another entry than a for the same
\* resource, and a b that brings a resource type a does not have.
C10_Witness ==
    /\ m_pc = "done"
    /\ ~m_b.success
    /\ m_c.success
    /\ m_a.errors # <<>>
    /\ m_b.errors # <<>>
    /\ m_a.errors # m_b.errors
    /\ "connections" \in DOMAIN m_a.resources \cap DOMAIN m_c.resources
    /\ m_a.resources["connections"] # m_c.resources["connections"]
    /\ "integrations" \in DOMAIN m_b.resources \ DOMAIN m_a.resources

-----------------------------------------------------------------------------
(* Claims about the execute dispatchers, checked under SpecExecute *)

\* C12: for every workflow family, execute with an operation name the family
\* does not route, or with none, returns a result with success = FALSE and
\* exactly one error, raises no exception and issues no gateway call.
C12_UnknownOperation ==
    (ex_pc = "returned" /\ ex_operation \notin DOMAIN WorkflowFamilies[ex_family]) =>
        /\ ex_result.success = FALSE
        /\ Len(ex_result.errors) = 1
        /\ ex_raised = FALSE
        /\ ex_gateway = 0
        /\ ex_handler = NoHandler

\* A Schedule execute that returned for an operation only another family routes.
C12_Witness ==
    /\ ex_pc = "returned"
    /\ ex_family = "Schedule"
    /\ ex_operation = "full_backup"
    /\ Len(ex_result.errors) = 1

-----------------------------------------------------------------------------
(* Claims about backup_all_resources and restore_from_backup, checked under
   SpecBackup *)

\* C13: with continue_on_error = False, once the export or import of a
\* resource has failed, no further export or import call is issued for any
\* resource of any kind, and the workflow returns a result with success = False.
C13_AbortOnFirstFailure ==
    (~bk_continue /\ bk_failed) =>
        /\ bk_after = 0
        /\ bk_pc = "done" => (bk_end = "returned" /\ ~bk_result.success)

\* C14: in backup_all_resources with continue_on_error = True, when the
\* workflow has ended, every listed resource of every included kind that has an
\* id has had exactly one export call.
C14_EveryResourceExportedOnce ==
    (bk_op = "backup" /\ bk_continue /\ bk_pc = "done") =>
        \A r \in bk_listed :
            Cardinality({n \in 1..Len(bk_calls) : bk_calls[n] = r}) = 1

-----------------------------------------------------------------------------
(* Claims about prune_old_backups, checked under SpecPrune *)

\* C19: the newest retention_count backups of the directory are kept
\* unconditionally, and of the remaining ones exactly those older than
\* retention_days are marked for deletion, the rest kept.
C19_RetentionPolicy ==
    (pr_pc = "done" /\ pr_exists) =>
        LET sorted == NewestFirst(pr_before)
            newest == {sorted[i] : i \in 1..Len(sorted) \cap 1..pr_count}
            rest == pr_before \ newest
            kept == {pr_keep[i] : i \in 1..Len(pr_keep)}
            marked == {pr_delete[i] : i \in 1..Len(pr_delete)}
        IN  /\ newest \subseteq kept
            /\ marked = {a \in rest : a > pr_days}
            /\ kept = newest \cup {a \in rest : a <= pr_days}

\* C20: a call with dry_run = True removes nothing: the backups on disk are the
\* same before and after, for every retention setting.
C20_DryRunRemovesNothing ==
    (pr_pc = "done" /\ pr_dry_run) => pr_disk = pr_before

\* A dry run over a directory holding more backups than retention_count, some
\* of them older than retention_days.
C20_Witness ==
    /\ pr_pc = "done" /\ pr_dry_run /\ pr_exists
    /\ Cardinality(pr_before) > pr_count
    /\ \E a \in pr_before : a > pr_days
    /\ pr_disk = pr_before

-----------------------------------------------------------------------------
(* Claims about wait_for_operation, checked under SpecWait *)

\* C15: wait_for_operation calls check_operation at most max_attempts times; it
\* ends only on a satisfied check or after max_attempts calls, so an OICError
\* of a check does not end the loop; and when no check satisfied the predicate
\* it returns a result with success = FALSE, details.completed = FALSE,
\* details.attempts = max_attempts and exactly one error.
C15_BoundedWait ==
    /\ Len(w_outcomes) <= w_max
    /\ w_pc = "done" =>
        IF \E n \in 1..Len(w_outcomes) : w_outcomes[n] = "satisfied"
        THEN w_result.success /\ w_result.details["completed"] = TRUE
        ELSE /\ Len(w_outcomes) = w_max
             /\ w_result.success = FALSE
             /\ w_result.details["completed"] = FALSE
             /\ w_result.details["attempts"] = w_max
             /\ Len(w_result.errors) = 1

\* A wait that timed out although its first check raised an OICError and a
\* later one returned data the predicate rejected.
C15_Witness ==
    /\ w_pc = "done"
    /\ w_max >= 2
    /\ Len(w_outcomes) = w_max
    /\ w_outcomes[1] = "OICError"
    /\ w_outcomes[w_max] = "unsatisfied"
    /\ ~w_result.success

-----------------------------------------------------------------------------
(* Claims about the restart workflows, checked under SpecRestart *)

\* C16: after an activate or deactivate action the handler re-reads the status
\* until it matches: when the workflow has ended, a verifying read that did
\* not show the expected status is followed by another read of the same
\* integration, so that a status matching on a later read counts as success.
C16_RereadsUntilMatch ==
    rs_pc = "done" =>
        \A n \in 1..(Len(rs_log) - 1) :
            LET action == rs_log[n]
                read == rs_log[n + 1]
            IN  (/\ action.op \in {"activate", "deactivate"}
                 /\ action.out = "ok"
                 /\ read.op = "get" /\ read.id = action.id
                 /\ IF action.op = "activate"
                    THEN read.out \in {"CONFIGURED", "ERROR"}
                    ELSE read.out = "ACTIVATED")
                => /\ n + 2 <= Len(rs_log)
                   /\ rs_log[n + 2].op = "get"
                   /\ rs_log[n + 2].id = action.id

\* C17: in the restart workflows an integration whose status was read as ERROR
\* is only reported: no activate or deactivate call is sent to it afterwards.
C17_ErrorStatusNotTouched ==
    \A m \in 1..Len(rs_log) : \A n \in (m + 1)..Len(rs_log) :
        (rs_log[m].op = "get" /\ rs_log[m].out = "ERROR")
            => ~(rs_log[n].id = rs_log[m].id
                 /\ rs_log[n].op \in {"activate", "deactivate"})

\* C18: in update_credentials_and_restart_integrations the calls come in the
\* order update, test, find dependents, then per integration deactivate before
\* activate; when the update or the test failed, or restart_scope is "none", no
\* integration is deactivated or activated; and activate is sent to an
\* integration only if its deactivate was not needed or returned without error.
C18_RestartOrder ==
    rs_wf = "update_and_restart" =>
        LET Pos(op) == {n \in 1..Len(rs_log) : rs_log[n].op = op}
            Acts == Pos("activate") \cup Pos("deactivate")
            Status(i) == CHOOSE s \in IntegrationStatuses :
                            \E k \in 1..Len(rs_todo) : rs_todo[k] = <<i, s>>
        IN  /\ \A n \in Pos("test") : \E m \in Pos("update") : m < n
            /\ \A n \in Pos("find") : \E m \in Pos("test") : m < n
            /\ \A n \in Acts : \E m \in Pos("find") : m < n
            /\ \A n \in Pos("deactivate") : \A m \in Pos("activate") :
                    rs_log[n].id = rs_log[m].id => n < m
            /\ (\/ rs_scope = "none"
                \/ \E n \in 1..Len(rs_log) :
                    /\ rs_log[n].op \in {"get_connection", "update", "test"}
                    /\ rs_log[n].out \notin {"ok", "SUCCESS"}) => Acts = {}
            /\ \A m \in Pos("activate") :
                    \/ /\ Status(rs_log[m].id) # "ACTIVATED"
                       /\ \A n \in Pos("deactivate") : rs_log[n].id # rs_log[m].id
                    \/ \E n \in Pos("deactivate") :
                        /\ n < m
                        /\ rs_log[n].id = rs_log[m].id
                        /\ rs_log[n].out = "ok"

\* The workflow has ended after a deactivate of one integration raised, which
\* got no activate, and another integration was deactivated and activated.
C18_Witness ==
    /\ rs_wf = "update_and_restart" /\ rs_pc = "done"
    /\ \E n \in 1..Len(rs_log) :
        /\ rs_log[n] = Call("deactivate", 1, "OICError")
        /\ \A m \in 1..Len(rs_log) : rs_log[m].op = "activate" => rs_log[m].id # 1
    /\ \E n \in 1..Len(rs_log) : \E m \in (n + 1)..Len(rs_log) :
        /\ rs_log[n] = Call("deactivate", 2, "ok")
        /\ rs_log[m] = Call("activate", 2, "ok")

-----------------------------------------------------------------------------
(* Claims about ConnectionsResource.create, checked under SpecCreate *)

\* C21: create raises OICValidationError and posts nothing when name,
\* identifier or connectionType is absent from the data; when all three are
\* present it makes exactly one post, to the base path, with the data.
C21_CreateValidation ==
    cr_pc = "done" =>
        IF \E f \in {"name", "identifier", "connectionType"} : cr_data[f] = "absent"
        THEN cr_result = "OICValidationError" /\ cr_posts = <<>>
        ELSE /\ cr_result # "OICValidationError"
             /\ cr_posts = <<<<ConnectionsBasePath, cr_data>>>>

\* A create whose data lacks only connectionType was refused.
C21_Witness ==
    /\ cr_pc = "done"
    /\ cr_data["name"] = "value" /\ cr_data["identifier"] = "value"
    /\ cr_data["connectionType"] = "absent"
    /\ cr_result = "OICValidationError"

-----------------------------------------------------------------------------
(* Claims about find_integration_dependencies, checked under SpecDeps *)

\* C22: with every kind included, an integration whose references name two
\* connections and one lookup, each once, is reported with the counts
\* connections = 2, lookups = 1, libraries = 0; and an integration without
\* references, triggers and invokes is reported with empty lists, success and
\* no error.
C22_DependencyCounts ==
    (dp_pc = "done" /\ dp_include = <<TRUE, TRUE, TRUE>> /\ dp_result.errors = <<>>) =>
        LET refs == dp_payload.references.items
            Of(type) == {n \in 1..Len(refs) : refs[n][1] = type}
        IN  /\ (/\ Len(refs) = 3
                /\ \A n \in 1..3 : refs[n][2] # ""
                /\ \A m, n \in 1..3 : m # n => refs[m] # refs[n]
                /\ Cardinality(Of("CONNECTION")) = 2
                /\ Cardinality(Of("LOOKUP")) = 1)
               => /\ Len(dp_deps.connections) = 2
                  /\ Len(dp_deps.lookups) = 1
                  /\ Len(dp_deps.libraries) = 0
            /\ (/\ ~dp_payload.references.present
                /\ ~dp_payload.triggers.present
                /\ ~dp_payload.invokes.present)
               => /\ dp_deps = [connections |-> <<>>, lookups |-> <<>>,
                                libraries |-> <<>>]
                  /\ dp_result.success

\* The fixture: a payload referencing connections a and b and lookup a, whose
\* trigger and invoke use connection a again.
C22_Witness ==
    /\ dp_pc = "done" /\ dp_include = <<TRUE, TRUE, TRUE>>
    /\ dp_payload.references =
         Present(<<<<"CONNECTION", "a">>, <<"LOOKUP", "a">>, <<"CONNECTION", "b">>>>)
    /\ dp_payload.triggers = Present(<<"a">>)
    /\ dp_payload.invokes = Present(<<"a">>)
    /\ dp_deps.connections = <<"a", "b">>

\* C28: the lists returned are sets: no id appears twice within a kind, so
\* the counts are the numbers of distinct ids.
C28_DependenciesAreSets ==
    dp_pc = "done" =>
        \A kind \in {"connections", "lookups", "libraries"} :
            \A m, n \in 1..Len(dp_deps[kind]) :
                m # n => dp_deps[kind][m] # dp_deps[kind][n]

\* C23: restoring a connection file whose identifier the target holds issues
\* exactly one update and no create when overwrite_existing is true; with no
\* such connection on the target it issues exactly one create and no update;
\* with one and overwrite_existing false it issues neither and the target's
\* connections are unchanged.
C23_RestoreConnection ==
    (rt_pc = "restored" /\ rt_file.data.identifier # "") =>
        LET exists == ServerList(rt_before, rt_file.data.identifier) # {}
            made(op) == Cardinality({i \in DOMAIN rt_calls : rt_calls[i] = op})
        IN  /\ (exists /\ rt_overwrite) =>
                (made("update") = 1 /\ made("create") = 0)
            /\ ~exists => (made("create") = 1 /\ made("update") = 0)
            /\ (exists /\ ~rt_overwrite) =>
                (/\ made("update") = 0 /\ made("create") = 0
                 /\ rt_target = rt_before)

\* C24: a connection backed up, restored and read back with get has the name
\* and the connectionType of the source connection.
C24_RoundTrip ==
    (rt_trip /\ rt_pc = "done") =>
        /\ rt_read.present
        /\ "name" \in DOMAIN rt_read.data
        /\ rt_read.data.name = rt_source.name
        /\ "connectionType" \in DOMAIN rt_read.data
        /\ rt_read.data.connectionType = rt_source.connectionType

\* C25: in list_all the offset of each page request is strictly greater than
\* the offset of the request before it, so no page is requested twice.
C25_OffsetsIncrease ==
    [][(ListPage /\ has_more' = TRUE) => pages' > pages]_vars

\* The ids of integration_ids whose get raised: they are not among the listed.
BulkUnread == {bu_ids[i] : i \in DOMAIN bu_ids} \ {bu_todo[j].id : j \in DOMAIN bu_todo}

\* C26: with an explicit id list and continue_on_error true, an id whose get
\* fails is recorded as an error of the result, which is then not successful,
\* and every other id is still processed.
C26_FailedGetRecorded ==
    (bu_pc = "done" /\ bu_continue) =>
        /\ \A id \in BulkUnread :
            /\ ~bu_result.success
            /\ \E k \in DOMAIN bu_result.errors :
                /\ "resource_id" \in DOMAIN bu_result.errors[k]
                /\ bu_result.errors[k].resource_id = id
        /\ \A j \in DOMAIN bu_todo :
            /\ "integration" \in DOMAIN bu_result.resources
            /\ bu_todo[j].id \in DOMAIN bu_result.resources["integration"]

\* The last gateway call of the log that names the integration.
LastCallOf(log, id) ==
    LET at == {k \in DOMAIN log : log[k].id = id}
    IN  log[CHOOSE k \in at : \A m \in at : m <= k]

\* C27: bulk_deactivate_integrations with verification reports a deactivation
\* as successful only if the status read after the deactivate call is
\* CONFIGURED.
C27_DeactivatedMeansConfigured ==
    (bu_op = "deactivate" /\ bu_verify /\ bu_pc = "done") =>
        \A j \in DOMAIN bu_todo :
            LET id == bu_todo[j].id IN
            ( /\ "integration" \in DOMAIN bu_result.resources
              /\ id \in DOMAIN bu_result.resources["integration"]
              /\ bu_result.resources["integration"][id].result = "success" )
            => LastCallOf(bu_log, id) = Call("get", id, "CONFIGURED")

\* C29: when the server answers the upload request of an import method with
\* 404, the call fails with OICResourceNotFoundError.
C29_ImportNotFound ==
    (im_pc = "done" /\ im_sent /\ im_status = 404) =>
        im_result = "OICResourceNotFoundError"

\* C30: when two or more requests of workers sharing one client are answered
\* 401 at the same time, exactly one token exchange is made and every retried
\* request carries the token that exchange produced.
C30_SingleExchange ==
    ((\A w \in Workers : cc_pc[w] = "done") /\ Cardinality(cc_storm) >= 2) =>
        /\ cc_exchanges = 1
        /\ \A w \in cc_storm : cc_header[w] = cc_issued

\* C34: bulk_activate_integrations sends no activate to an integration read
\* as ACTIVATED, bulk_deactivate_integrations sends no deactivate to one read
\* as anything but ACTIVATED, and such an integration is counted as
\* successful once its round of the loop is over.
C34_NoCallWhenAlreadyThere ==
    \A j \in DOMAIN bu_todo :
        LET id == bu_todo[j].id
            there == IF bu_op = "activate" THEN bu_todo[j].status = "ACTIVATED"
                     ELSE bu_todo[j].status # "ACTIVATED"
        IN  there =>
              /\ \A k \in DOMAIN bu_log :
                    bu_log[k].id = id => bu_log[k].op = "get"
              /\ ("total_count" \in DOMAIN bu_result.details /\ j < bu_i) =>
                    /\ \E m \in DOMAIN bu_ok : bu_ok[m] = id
                    /\ \A m \in DOMAIN bu_failed : bu_failed[m] # id

C34_Witness ==
    /\ bu_pc = "done" /\ bu_op = "deactivate"
    /\ \E j \in DOMAIN bu_todo :
        /\ bu_todo[j].status = "ERROR"
        /\ \E m \in DOMAIN bu_ok : bu_ok[m] = bu_todo[j].id
    /\ \E k \in DOMAIN bu_log : bu_log[k].op = "deactivate"

\* C33: in update_credentials_and_restart_integrations with verify_restart
\* true, an integration is counted as restarted only if its status was read
\* after the activate call and was ACTIVATED, whatever sequential_restart is.
C33_RestartedMeansActivated ==
    (/\ rs_wf = "update_and_restart" /\ rs_verify
     /\ rs_pc \in {"deactivate", "done"} /\ rs_cur > 1 /\ rs_ok) =>
        LET i == rs_todo[rs_cur - 1][1]
            n == Len(rs_log)
        IN  /\ n >= 2
            /\ rs_log[n - 1] = Call("activate", i, "ok")
            /\ rs_log[n] = Call("get", i, "ACTIVATED")

\* C35: the success flag of a WorkflowResult is monotone: once false, no
\* add_error, add_resource or merge call makes it true again.
C35_SuccessMonotone ==
    [][(AddError \/ AddResource \/ Merge) =>
        \A r \in ResultNames :
            results[r].success = FALSE => results'[r].success = FALSE]_vars

\* A failed result that a successful one was merged into (its message has
\* the parts of both) and that holds a resource.
C35_Witness ==
    /\ results["result"].success = FALSE
    /\ results["other"].success = TRUE
    /\ Len(results["result"].message) = 2
    /\ results["result"].resources # EmptyMap

\* C37: in prune_old_backups the keep list and the delete list are disjoint
\* and together hold every backup found exactly once; with at most
\* retention_count backups the delete list is empty; and only paths of the
\* delete list are removed.
C37_KeepDeletePartition ==
    (pr_pc = "done" /\ pr_exists) =>
        LET kept == {pr_keep[i] : i \in 1..Len(pr_keep)}
            marked == {pr_delete[i] : i \in 1..Len(pr_delete)}
        IN  /\ kept \cap marked = {}
            /\ kept \cup marked = pr_before
            /\ Len(pr_keep) + Len(pr_delete) = Cardinality(pr_before)
            /\ Cardinality(pr_before) <= pr_count => pr_delete = <<>>
            /\ (pr_before \ pr_disk) \subseteq marked

\* C36: execute_safely never raises: whatever exception the operation
\* throws, it returns the result with exactly one more error and success
\* false; and a WorkflowResult the operation returns is merged into the
\* result returned, so that a failed inner result makes the outer one failed.
C36_ExecuteSafely ==
    es_pc = "done" =>
        /\ ~es_raised
        /\ es_outcome.kind \in {"OICError", "Exception"} =>
            /\ Len(es_result.errors) = Len(es_before.errors) + 1
            /\ SubSeq(es_result.errors, 1, Len(es_before.errors)) = es_before.errors
            /\ es_result.success = FALSE
        /\ es_outcome.kind = "WorkflowResult" =>
            /\ es_result.errors = es_before.errors \o es_outcome.result.errors
            /\ DOMAIN es_before.resources \cup DOMAIN es_outcome.result.resources
                   = DOMAIN es_result.resources
            /\ es_result.success = (es_before.success /\ es_outcome.result.success)

C36_Witness ==
    /\ es_pc = "done"
    /\ es_outcome.kind = "Exception"
    /\ es_before.errors # <<>>
    /\ Len(es_result.errors) = 2
    /\ ~es_raised

\* C32: when promote_integration uses the path it passed to a successful
\* export as its import path, the exported archive is at exactly that path.
C32_ArchiveAtPassedPath ==
    (pm_exported /\ pm_import_path # "") =>
        /\ pm_import_path = pm_export_path
        /\ pm_found

\* C38: promote_integration has removed the temporary directory it created
\* when it returns, on every return path.
C38_TempDirRemoved ==
    pm_pc = "done" => ~pm_temp

\* C31: if at least one per-resource export, import or activation attempt of
\* clone_environment failed, the result it returns has success false.
C31_FailureMeansNotSuccess ==
    (cl_pc = "done" /\ cl_attempt_failed) => ~cl_result.success

====
